---- MODULE Spec2Model ----
(***************************************************************************)
(* Ordered container content of the Areas / Projects windows:              *)
(* order_index maintenance (move up / move down / insert below / append /  *)
(* delete) of AreasWindow + AreaManager, and the tag filter of AreasWindow *)
(* and ProjectsWindow.                                                     *)
(*                                                                         *)
(* The persistent store (DBManager) is an external collaborator: its rows  *)
(* are the variables area_relations / area_components, its single-row      *)
(* operations are the operators marked "store".                            *)
(***************************************************************************)
EXTENDS Integers, Sequences, FiniteSets, TLC

\* ---------------------------------------------------------------- bounds
\* ids the store hands out to relations / components (AUTOINCREMENT, from 1)
MaxRelationId == 2
MaxComponentId == 1
\* areas that exist in the store
NumAreas == 1
\* tag ids that exist in the store
NumTags == 2
\* store writes of one handler that may raise are numbered 1..MaxFailIndex
MaxFailIndex == 3
\* store writes that raise during one run
MaxFailures == 1
\* ids the store hands out to areas
MaxAreaId == 3
\* insertions stop once an order_index of the area has reached MaxOrderIndex
MaxOrderIndex == 4
\* relation / component ids of a store whose areas are duplicated or added to
MaxCopyId == 2
\* component ids of a store whose components are added with tags
MaxTaggedComponentId == 2

AreaIds == 1..NumAreas
TagIds == 1..NumTags
\* Python None for current_area_id (the guards test "not self.current_area_id")
None == 0
\* Python None for _selected_insert_position
NoPosition == [type |-> "none", id |-> 0, order_index |-> 0]
FailSets == SUBSET (1..MaxFailIndex)
NoFail == {}

VARIABLES
    area_relations,            \* store rows: [id, area_id, entity_type, entity_id, description, order_index]
    area_components,           \* store rows: [id, area_id, component_type, content, order_index]
    next_relation_id,          \* store: next AUTOINCREMENT id of area_relations
    next_component_id,         \* store: next AUTOINCREMENT id of area_components
    relation_tags,             \* store: relation id -> set of tag ids
    component_tags,            \* store: component id -> set of tag ids
    current_area_id,           \* AreasWindow.current_area_id
    selected_insert_position,  \* AreasWindow._selected_insert_position
    active_tag_filters,        \* AreasWindow.active_tag_filters
    tag_filter_match_all,      \* AreasWindow.tag_filter_match_all
    canvas,                    \* widgets on the canvas, built by the last load_area
    checked_widget,            \* the widget whose checkbox is ticked (NoPosition: none)
    project_content,           \* store: get_project_content_ordered of the current project
    project_relation_tags,     \* store: project relation id -> set of tag ids
    project_active_tag_filters,    \* ProjectsWindow.active_tag_filters
    project_tag_filter_match_all,  \* ProjectsWindow.tag_filter_match_all
    project_canvas,            \* widgets built by the last load_project
    failures,                  \* store: number of writes that have raised so far
    last_op,                   \* the handler that ran last, its store writes, the content before it
    manager_kind,              \* which tag manager this is: "area" or "project"
    element_tags,              \* store rows of the manager's tag table: [id, name, color]
    next_tag_id,               \* store: next AUTOINCREMENT id of the tag table
    tags_cache,                \* the tag manager's _tags_cache
    last_call,                 \* the manager method called last, its store calls and its result
    areas,                     \* store rows: [id, name, is_active]
    next_area_id,              \* store: next AUTOINCREMENT id of areas
    areas_cache,               \* AreaManager._areas_cache
    tag_filter_widget,         \* AreaTagFilterWidget of the Areas window: area_id, checkboxes, match_all
    filter_engine              \* AreaFilterEngine: _active_area_filter, _entity_cache

store_vars == <<area_relations, area_components, next_relation_id, next_component_id>>
tag_vars == <<relation_tags, component_tags>>
filter_vars == <<active_tag_filters, tag_filter_match_all>>
manager_vars == <<manager_kind, element_tags, next_tag_id, last_call, areas, next_area_id,
                  filter_engine>>
project_vars == <<project_content, project_relation_tags, project_active_tag_filters,
                  project_tag_filter_match_all, project_canvas>>
vars == <<area_relations, area_components, next_relation_id, next_component_id,
          relation_tags, component_tags, current_area_id, selected_insert_position,
          active_tag_filters, tag_filter_match_all, canvas, checked_widget,
          project_content, project_relation_tags, project_active_tag_filters,
          project_tag_filter_match_all, project_canvas, failures, last_op,
          manager_kind, element_tags, next_tag_id, tags_cache, last_call,
          areas, next_area_id, areas_cache, tag_filter_widget, filter_engine>>

\* ---------------------------------------------------------------- helpers
Range(s) == {s[i] : i \in 1..Len(s)}

SetMax(S) == CHOOSE x \in S : \A y \in S : y <= x

SetMin(S) == CHOOSE x \in S : \A y \in S : x <= y

\* ---------------------------------------------------------------- store
\* rows of one area
get_area_relations(rels, area_id) == {r \in rels : r.area_id = area_id}

get_area_components(comps, area_id) == {c \in comps : c.area_id = area_id}

\* a content row as get_area_content_ordered returns it
ContentItem(type, row) == [type |-> type, id |-> row.id, order_index |-> row.order_index]

AreaContent(rels, comps, area_id) ==
    {ContentItem("relation", r) : r \in get_area_relations(rels, area_id)}
        \cup {ContentItem("component", c) : c \in get_area_components(comps, area_id)}

\* every arrangement of the rows S in ascending order_index; the order of
\* rows with equal order_index is not defined by the store
RECURSIVE Orderings(_)
Orderings(S) ==
    IF S = {} THEN {<<>>}
    ELSE UNION {{<<e>> \o s : s \in Orderings(S \ {e})} :
                   e \in {x \in S : \A y \in S : x.order_index <= y.order_index}}

get_area_content_ordered(rels, comps, area_id) == Orderings(AreaContent(rels, comps, area_id))

update_relation_order(rels, id, order_index) ==
    {IF r.id = id THEN [r EXCEPT !.order_index = order_index] ELSE r : r \in rels}

update_component_order(comps, id, order_index) ==
    {IF c.id = id THEN [c EXCEPT !.order_index = order_index] ELSE c : c \in comps}

RelationRow(id, area_id, entity_type, entity_id, description, order_index) ==
    [id |-> id, area_id |-> area_id, entity_type |-> entity_type, entity_id |-> entity_id,
     description |-> description, order_index |-> order_index]

ComponentRow(id, area_id, component_type, content, order_index) ==
    [id |-> id, area_id |-> area_id, component_type |-> component_type, content |-> content,
     order_index |-> order_index]

add_area_relation(rels, id, area_id, entity_type, entity_id, description, order_index) ==
    rels \cup {RelationRow(id, area_id, entity_type, entity_id, description, order_index)}

add_area_component(comps, id, area_id, component_type, content, order_index) ==
    comps \cup {ComponentRow(id, area_id, component_type, content, order_index)}

remove_area_relation(rels, id) == {r \in rels : r.id # id}

remove_area_component(comps, id) == {c \in comps : c.id # id}

\* ---------------------------------------------------------------- tag filter
\* AreasWindow._filter_content_by_tags
item_tags_ids(item, rtags, ctags) ==
    IF item.type = "relation" THEN rtags[item.id]
    ELSE IF item.type = "component" THEN ctags[item.id]
    ELSE {}

\* an AND mode that asks for every tag of the item to be selected
filter_keeps_reversed(tag_ids, selected, match_all) ==
    IF match_all THEN \A t \in tag_ids : t \in selected
    ELSE \E t \in selected : t \in tag_ids

filter_keeps(tag_ids, selected, match_all) ==
    IF match_all THEN \A t \in selected : t \in tag_ids
    ELSE \E t \in selected : t \in tag_ids

\* a filter that looks at the tags of relations only
filter_content_by_tags_relations_only(content, selected, match_all, rtags, ctags) ==
    IF selected = {} THEN content
    ELSE SelectSeq(content,
            LAMBDA item : \/ item.type # "relation"
                          \/ filter_keeps(rtags[item.id], selected, match_all))

\* a filter without the early return for an empty selection
filter_content_by_tags_always(content, selected, match_all, rtags, ctags) ==
    SelectSeq(content,
        LAMBDA item : filter_keeps(item_tags_ids(item, rtags, ctags), selected, match_all))

filter_content_by_tags(content, selected, match_all, rtags, ctags) ==
    IF selected = {} THEN content
    ELSE SelectSeq(content,
            LAMBDA item : filter_keeps(item_tags_ids(item, rtags, ctags), selected, match_all))

\* a Project filter that keeps relations only
project_filter_content_by_tags_relations(content, selected, match_all, rtags) ==
    IF selected = {} THEN content
    ELSE SelectSeq(content,
            LAMBDA item : /\ item.type = "relation"
                          /\ filter_keeps(rtags[item.id], selected, match_all))

\* ProjectsWindow._filter_content_by_tags
project_filter_content_by_tags(content, selected, match_all, rtags) ==
    IF selected = {} THEN content
    ELSE SelectSeq(content,
            LAMBDA item : \/ item.type # "relation"
                          \/ filter_keeps(rtags[item.id], selected, match_all))

\* ---------------------------------------------------------------- AreaManager
\* AreaManager.add_entity_to_area, order_index=None branch: max over relations
\* and components, plus one (-1 + 1 = 0 for an empty area)
entity_append_order_index(rels, comps, area_id) ==
    LET orders == {x.order_index : x \in AreaContent(rels, comps, area_id)}
        max_order == IF orders = {} THEN -1 ELSE SetMax(orders)
    IN  max_order + 1

\* AreaManager.add_component_to_area, order_index=None branch
component_append_order_index(rels, comps, area_id) ==
    Cardinality(get_area_relations(rels, area_id))
        + Cardinality(get_area_components(comps, area_id))

\* ---------------------------------------------------------------- caches and the tag filter widget
\* Python None for _tags_cache; a dict is the set of its values, keyed by id
NoCache == [is_none |-> TRUE, tags |-> {}]

\* AreaElementTagManager._cache_tag / ProjectElementTagManager._cache_tag
cache_tag(cache, tag) ==
    [is_none |-> FALSE, tags |-> {t \in cache.tags : t.id # tag.id} \cup {tag}]

\* _cache_tag for each tag of a result list (nothing happens for an empty list)
cache_tags(cache, tags) ==
    IF tags = {} THEN cache
    ELSE [is_none |-> FALSE,
          tags |-> {t \in cache.tags : \A n \in tags : n.id # t.id} \cup tags]

\* _get_from_cache: the set holding the cached tag, empty for None
get_from_cache(cache, tag_id) ==
    IF cache.is_none THEN {} ELSE {t \in cache.tags : t.id = tag_id}

\* a del that leaves the entry in the cache
cache_del_kept(cache, tag_id) == cache

\* del self._tags_cache[tag_id]
cache_del(cache, tag_id) == [cache EXCEPT !.tags = {t \in @ : t.id # tag_id}]

\* a cache that _load_cache has filled from the store
loaded_cache(tags) == [is_none |-> FALSE, tags |-> tags]

\* the tag ids get_tags_for_area collects from the relations and components
\* of the area
area_tag_ids(area_id, rels, comps, rtags, ctags) ==
    UNION {rtags[r.id] : r \in get_area_relations(rels, area_id)}
        \cup UNION {ctags[c.id] : c \in get_area_components(comps, area_id)}

\* AreaElementTagManager.get_tags_for_area: get_tag of every collected id, the
\* ids of the tags found (in the cache, or else in the store)
get_tags_for_area(cache, tags, tag_ids) ==
    {t \in tag_ids : get_from_cache(cache, t) # {} \/ \E row \in tags : row.id = t}

\* the cache after these get_tag calls: a tag that was not cached is cached
cache_after_get_tags(cache, tags, tag_ids) ==
    cache_tags(cache, {row \in tags : row.id \in tag_ids /\ get_from_cache(cache, row.id) = {}})

\* AreaTagFilterWidget: the area it shows (None: every tag), the tag ids that
\* have a checkbox, the ones whose checkbox is checked, the match_all flag
TagFilterWidget(area_id, tag_checkboxes, checked, match_all) ==
    [area_id |-> area_id, tag_checkboxes |-> tag_checkboxes, checked |-> checked,
     match_all |-> match_all]

\* a filter widget over a store without tags
NoWidget == TagFilterWidget(None, {}, {}, FALSE)

\* AreaTagFilterWidget._load_tags: the checkboxes are rebuilt for the tags
\* given; a tag that was checked is checked again before its signal is
\* connected, so nothing is emitted
load_tags(widget, tag_ids) ==
    [widget EXCEPT !.tag_checkboxes = tag_ids, !.checked = widget.checked \cap tag_ids]

\* AreaTagFilterWidget.set_area
set_area(widget, area_id, tag_ids) == load_tags([widget EXCEPT !.area_id = area_id], tag_ids)

\* AreaManager.get_area: the cached row if there is one, else the store's row
get_area_rows(cache, rows, area_id) ==
    IF \E a \in cache : a.id = area_id
    THEN {a \in cache : a.id = area_id}
    ELSE {a \in rows : a.id = area_id}

\* ---------------------------------------------------------------- AreasWindow
\* the k-th store write attempted by a handler raises iff k \in fail
FirstFail(fail, base, n) ==
    IF \E k \in 1..n : (base + k) \in fail
    THEN SetMin({k \in 1..n : (base + k) \in fail})
    ELSE 0

\* the "if entity_type is not None ... elif component_type is not None" write
write_order(st, item, order_index) ==
    IF item.type = "relation"
    THEN [st EXCEPT !.rels = update_relation_order(st.rels, item.id, order_index)]
    ELSE IF item.type = "component"
    THEN [st EXCEPT !.comps = update_component_order(st.comps, item.id, order_index)]
    ELSE st

\* the loop of _shift_order_indices_down over the items with order_index >= from_order
RECURSIVE shift_items(_, _)
shift_items(st, items) ==
    IF items = <<>> THEN st
    ELSE shift_items(write_order(st, Head(items), Head(items).order_index + 1), Tail(items))

\* AreasWindow._shift_order_indices_down: the exception of a failing write is
\* caught here, the writes made before it stay
shift_order_indices_down(rels, comps, content, from_order, fail) ==
    LET targets == SelectSeq(content, LAMBDA item : item.order_index >= from_order)
        k == FirstFail(fail, 0, Len(targets))
        done == IF k = 0 THEN targets ELSE SubSeq(targets, 1, k - 1)
        st == shift_items([rels |-> rels, comps |-> comps], done)
    IN  [rels |-> st.rels, comps |-> st.comps,
         writes |-> [i \in 1..(IF k = 0 THEN Len(targets) ELSE k) |-> i # k]]

\* index of the first item of content whose id is item_id, 0 if there is none
find_index(content, item_id) ==
    IF \E i \in 1..Len(content) : content[i].id = item_id
    THEN SetMin({i \in 1..Len(content) : content[i].id = item_id})
    ELSE 0

\* the two writes that exchange order_index of content[i] and content[j]
swap_order_index(rels, comps, content, i, j, fail) ==
    LET st0 == [rels |-> rels, comps |-> comps]
        st1 == write_order(st0, content[i], content[j].order_index)
        st2 == write_order(st1, content[j], content[i].order_index)
    IN  IF 1 \in fail THEN [rels |-> rels, comps |-> comps, writes |-> <<FALSE>>]
        ELSE IF 2 \in fail THEN [rels |-> st1.rels, comps |-> st1.comps, writes |-> <<TRUE, FALSE>>]
        ELSE [rels |-> st2.rels, comps |-> st2.comps, writes |-> <<TRUE, TRUE>>]

\* what the handlers log: the handler, the widget that asked for it, the outcome
\* of each store write it attempted, the content before a move up
Op(name, item, writes, pre) ==
    [name |-> name, type |-> item.type, id |-> item.id, writes |-> writes, pre |-> pre]

log(name, item, writes, pre) ==
    /\ last_op' = Op(name, item, writes, pre)
    /\ failures' = failures + Cardinality({i \in DOMAIN writes : ~writes[i]})
    /\ failures' <= MaxFailures

\* AreasWindow.load_area: the area is asked from the AreaManager (which caches
\* it) and nothing more happens when there is none; the filter widget is set
\* to the area; the canvas is rebuilt from the store (filtered when a tag
\* filter is active, the tags read for it are cached); the new widgets'
\* checkboxes are unticked
load_area_with(area_id, rels, comps, rtags, ctags, selected, match_all, widget) ==
    LET area == get_area_rows(areas_cache, areas, area_id)
        tag_ids == area_tag_ids(area_id, rels, comps, rtags, ctags)
        cache == cache_after_get_tags(tags_cache, element_tags, tag_ids)
    IN  /\ current_area_id' = area_id
        /\ areas_cache' = areas_cache \cup area
        /\ IF area = {}
           THEN /\ tag_filter_widget' = widget
                /\ UNCHANGED <<canvas, checked_widget, tags_cache>>
           ELSE /\ tag_filter_widget' =
                      set_area(widget, area_id,
                               get_tags_for_area(tags_cache, element_tags, tag_ids))
                /\ \E content \in get_area_content_ordered(rels, comps, area_id) :
                      IF selected # {}
                      THEN /\ canvas' = filter_content_by_tags(content, selected, match_all,
                                                               rtags, ctags)
                           /\ tags_cache' = cache_tags(cache,
                                  {row \in element_tags : row.id \in tag_ids})
                      ELSE /\ canvas' = content
                           /\ tags_cache' = cache
                /\ checked_widget' = NoPosition

load_area_filtered(area_id, rels, comps, rtags, ctags, selected, match_all) ==
    load_area_with(area_id, rels, comps, rtags, ctags, selected, match_all, tag_filter_widget)

load_area(area_id, rels, comps, rtags, ctags) ==
    load_area_filtered(area_id, rels, comps, rtags, ctags,
                       active_tag_filters, tag_filter_match_all)

no_reload ==
    UNCHANGED <<current_area_id, canvas, checked_widget, tags_cache, areas_cache, tag_filter_widget>>

on_area_selected(area_id) ==
    /\ load_area(area_id, area_relations, area_components, relation_tags, component_tags)
    /\ log("load_area", NoPosition, <<>>, {})
    /\ UNCHANGED <<store_vars, tag_vars, filter_vars, project_vars, manager_vars, selected_insert_position>>

on_refresh_area ==
    /\ current_area_id # None
    /\ load_area(current_area_id, area_relations, area_components, relation_tags, component_tags)
    /\ log("load_area", NoPosition, <<>>, {})
    /\ UNCHANGED <<store_vars, tag_vars, filter_vars, project_vars, manager_vars, selected_insert_position>>

\* AreasWindow._on_checkbox_changed, emitted by the checkbox of a canvas widget
on_checkbox_changed(widget, checked) ==
    /\ widget \in Range(canvas)
    /\ IF checked
       THEN /\ checked_widget # widget
            /\ selected_insert_position' = widget
            /\ checked_widget' = widget
       ELSE /\ checked_widget = widget
            /\ checked_widget' = NoPosition
            /\ selected_insert_position' =
                  IF selected_insert_position # NoPosition
                        /\ selected_insert_position.id = widget.id
                  THEN NoPosition ELSE selected_insert_position
    /\ log("checkbox", widget, <<>>, {})
    /\ UNCHANGED <<store_vars, tag_vars, filter_vars, project_vars, manager_vars,
                   current_area_id, canvas, tags_cache, areas_cache, tag_filter_widget>>

\* AreasWindow._on_move_up, emitted by the move-up button of a canvas widget
\* with that widget's id
on_move_up(widget, fail) ==
    /\ widget \in Range(canvas)
    /\ LET pre == AreaContent(area_relations, area_components, current_area_id)
           quiet == /\ UNCHANGED store_vars
                    /\ no_reload
                    /\ log("move_up", widget, <<>>, pre)
       IN  IF current_area_id = None THEN quiet
           ELSE \E content \in get_area_content_ordered(area_relations, area_components,
                                                       current_area_id) :
                  LET current_index == find_index(content, widget.id)
                  IN  IF current_index = 0 \/ current_index = 1 THEN quiet
                      ELSE LET r == swap_order_index(area_relations, area_components, content,
                                                     current_index, current_index - 1, fail)
                           IN  /\ area_relations' = r.rels
                               /\ area_components' = r.comps
                               /\ UNCHANGED <<next_relation_id, next_component_id>>
                               /\ log("move_up", widget, r.writes, pre)
                               /\ IF r.writes = <<TRUE, TRUE>>
                                  THEN load_area(current_area_id, r.rels, r.comps,
                                                 relation_tags, component_tags)
                                  ELSE no_reload
    /\ UNCHANGED <<tag_vars, filter_vars, project_vars, manager_vars, selected_insert_position>>

\* AreasWindow._on_move_down
on_move_down(widget, fail) ==
    /\ widget \in Range(canvas)
    /\ LET quiet == /\ UNCHANGED store_vars
                    /\ no_reload
                    /\ log("move_down", widget, <<>>, {})
       IN  IF current_area_id = None THEN quiet
           ELSE \E content \in get_area_content_ordered(area_relations, area_components,
                                                       current_area_id) :
                  LET current_index == find_index(content, widget.id)
                  IN  IF current_index = 0 \/ current_index >= Len(content) THEN quiet
                      ELSE LET r == swap_order_index(area_relations, area_components, content,
                                                     current_index, current_index + 1, fail)
                           IN  /\ area_relations' = r.rels
                               /\ area_components' = r.comps
                               /\ UNCHANGED <<next_relation_id, next_component_id>>
                               /\ log("move_down", widget, r.writes, {})
                               /\ IF r.writes = <<TRUE, TRUE>>
                                  THEN load_area(current_area_id, r.rels, r.comps,
                                                 relation_tags, component_tags)
                                  ELSE no_reload
    /\ UNCHANGED <<tag_vars, filter_vars, project_vars, manager_vars, selected_insert_position>>

\* the order_index passed to the manager and the shift made before it
\* (_on_entity_selected lines 857-868, add_component lines 924-934)
insert_shift(content, fail) ==
    IF selected_insert_position # NoPosition
    THEN shift_order_indices_down(area_relations, area_components, content,
                                  selected_insert_position.order_index + 1, fail)
    ELSE [rels |-> area_relations, comps |-> area_components, writes |-> <<>>]

\* AreasWindow._on_entity_selected (the entity selector dialog was accepted)
on_entity_selected(entity_type, entity_id, description, tag_ids, fail) ==
    /\ current_area_id # None
    /\ next_relation_id \in DOMAIN relation_tags
    /\ \A x \in AreaContent(area_relations, area_components, current_area_id) :
          x.order_index < MaxOrderIndex
    /\ selected_insert_position.order_index < MaxOrderIndex
    /\ \E content \in get_area_content_ordered(area_relations, area_components, current_area_id) :
         LET sh == insert_shift(content, fail)
             order_index == IF selected_insert_position # NoPosition
                            THEN selected_insert_position.order_index + 1
                            ELSE entity_append_order_index(sh.rels, sh.comps, current_area_id)
             success == (Len(sh.writes) + 1) \notin fail
             rels == add_area_relation(sh.rels, next_relation_id, current_area_id, entity_type,
                                      entity_id, description, order_index)
             new_relation == SetMax({r.id : r \in get_area_relations(rels, current_area_id)})
             rtags == IF tag_ids # {} THEN [relation_tags EXCEPT ![new_relation] = tag_ids]
                      ELSE relation_tags
         IN  /\ area_components' = sh.comps
             /\ UNCHANGED <<next_component_id, component_tags>>
             /\ log("add_relation", NoPosition, sh.writes \o <<success>>, {})
             /\ IF success
                THEN /\ area_relations' = rels
                     /\ next_relation_id' = next_relation_id + 1
                     /\ relation_tags' = rtags
                     /\ load_area(current_area_id, rels, sh.comps, rtags, component_tags)
                ELSE /\ area_relations' = sh.rels
                     /\ UNCHANGED <<next_relation_id, relation_tags>>
                     /\ no_reload
    /\ UNCHANGED <<filter_vars, project_vars, manager_vars, selected_insert_position>>

\* AreasWindow.add_component (the component editor dialog was accepted)
add_component(component_type, content, tag_ids, fail) ==
    /\ current_area_id # None
    /\ next_component_id \in DOMAIN component_tags
    /\ \A x \in AreaContent(area_relations, area_components, current_area_id) :
          x.order_index < MaxOrderIndex
    /\ selected_insert_position.order_index < MaxOrderIndex
    /\ \E ordered \in get_area_content_ordered(area_relations, area_components, current_area_id) :
         LET sh == insert_shift(ordered, fail)
             order_index == IF selected_insert_position # NoPosition
                            THEN selected_insert_position.order_index + 1
                            ELSE component_append_order_index(sh.rels, sh.comps, current_area_id)
             success == (Len(sh.writes) + 1) \notin fail
             comps == add_area_component(sh.comps, next_component_id, current_area_id,
                                        component_type, content, order_index)
         IN  /\ area_relations' = sh.rels
             /\ UNCHANGED <<next_relation_id, relation_tags>>
             /\ log("add_component", NoPosition, sh.writes \o <<success>>, {})
             /\ IF success
                THEN /\ area_components' = comps
                     /\ next_component_id' = next_component_id + 1
                     /\ \E components \in Orderings({ContentItem("component", c) :
                                          c \in get_area_components(comps, current_area_id)}) :
                          LET new_component == components[Len(components)]
                              ctags == IF tag_ids # {}
                                       THEN [component_tags EXCEPT ![new_component.id] = tag_ids]
                                       ELSE component_tags
                          IN  /\ component_tags' = ctags
                              /\ load_area(current_area_id, sh.rels, comps, relation_tags, ctags)
                ELSE /\ area_components' = sh.comps
                     /\ UNCHANGED <<next_component_id, component_tags>>
                     /\ no_reload
    /\ UNCHANGED <<filter_vars, project_vars, manager_vars, selected_insert_position>>

\* a delete that closes the gap it leaves
on_relation_delete_renumbering(widget, fail) ==
    /\ widget \in Range(canvas)
    /\ widget.type = "relation"
    /\ log("delete_relation", widget, <<1 \notin fail>>, {})
    /\ IF 1 \notin fail
       THEN LET gone == {r \in area_relations : r.id = widget.id}
                closes(x) == \E g \in gone : g.area_id = x.area_id /\ g.order_index < x.order_index
                rels == {IF closes(r) THEN [r EXCEPT !.order_index = @ - 1] ELSE r :
                           r \in remove_area_relation(area_relations, widget.id)}
                comps == {IF closes(c) THEN [c EXCEPT !.order_index = @ - 1] ELSE c :
                            c \in area_components}
                rtags == [relation_tags EXCEPT ![widget.id] = {}]
            IN  /\ area_relations' = rels
                /\ area_components' = comps
                /\ relation_tags' = rtags
                /\ load_area(current_area_id, rels, comps, rtags, component_tags)
       ELSE /\ UNCHANGED <<area_relations, area_components, relation_tags>>
            /\ no_reload
    /\ UNCHANGED <<next_relation_id, next_component_id, component_tags,
                   filter_vars, project_vars, manager_vars, selected_insert_position>>

\* AreasWindow._on_relation_delete, emitted by a relation widget
on_relation_delete(widget, fail) ==
    /\ widget \in Range(canvas)
    /\ widget.type = "relation"
    /\ log("delete_relation", widget, <<1 \notin fail>>, {})
    /\ IF 1 \notin fail
       THEN LET rels == remove_area_relation(area_relations, widget.id)
                rtags == [relation_tags EXCEPT ![widget.id] = {}]
            IN  /\ area_relations' = rels
                /\ relation_tags' = rtags
                /\ load_area(current_area_id, rels, area_components, rtags, component_tags)
       ELSE /\ UNCHANGED <<area_relations, relation_tags>>
            /\ no_reload
    /\ UNCHANGED <<area_components, next_relation_id, next_component_id, component_tags,
                   filter_vars, project_vars, manager_vars, selected_insert_position>>

\* AreasWindow._on_component_delete, emitted by a component widget
on_component_delete(widget, fail) ==
    /\ widget \in Range(canvas)
    /\ widget.type = "component"
    /\ log("delete_component", widget, <<1 \notin fail>>, {})
    /\ IF 1 \notin fail
       THEN LET comps == remove_area_component(area_components, widget.id)
                ctags == [component_tags EXCEPT ![widget.id] = {}]
            IN  /\ area_components' = comps
                /\ component_tags' = ctags
                /\ load_area(current_area_id, area_relations, comps, relation_tags, ctags)
       ELSE /\ UNCHANGED <<area_components, component_tags>>
            /\ no_reload
    /\ UNCHANGED <<area_relations, next_relation_id, next_component_id, relation_tags,
                   filter_vars, project_vars, manager_vars, selected_insert_position>>

\* ---------------------------------------------------------------- text
\* a str is the sequence of its characters
IsSpace(c) == c \in {" ", "\t", "\n"}

IsLetter(c) ==
    c \in {"a", "b", "c", "d", "e", "f", "g", "i", "l", "m", "n", "o", "p", "v", "A", "B", "C", "F"}

IsDigit(c) == c \in {"0", "1", "9"}

IsHexDigit(c) == c \in {"a", "b", "c", "d", "e", "f", "A", "B", "C", "F", "0", "1", "9"}

\* str.lower()
lower_char(c) ==
    IF c = "A" THEN "a" ELSE IF c = "B" THEN "b" ELSE IF c = "C" THEN "c"
    ELSE IF c = "F" THEN "f" ELSE c

lower(s) == [i \in 1..Len(s) |-> lower_char(s[i])]

\* "not name or not name.strip()"
is_blank(s) == \A i \in 1..Len(s) : IsSpace(s[i])

\* n times the character c
Repeat(c, n) == [i \in 1..n |-> c]

\* SQL LIKE '%query%'
Contains(s, q) == \E i \in 0..(Len(s) - Len(q)) : SubSeq(s, i + 1, i + Len(q)) = q

\* names and colors used below: "valid_name-1", "bad!name", "#fff", "#ffffff", "#ggg"
ValidName == <<"v", "a", "l", "i", "d", "_", "n", "a", "m", "e", "-", "1">>

BadName == <<"b", "a", "d", "!", "n", "a", "m", "e">>

Fff == <<"#", "f", "f", "f">>

Ffffff == <<"#", "f", "f", "f", "f", "f", "f">>

Ggg == <<"#", "g", "g", "g">>

\* ---------------------------------------------------------------- tag store
TagRow(id, name, color) == [id |-> id, name |-> name, color |-> color]

get_element_tag_by_id(tags, tag_id) == {t \in tags : t.id = tag_id}

get_element_tag_by_name(tags, name) == {t \in tags : t.name = name}

search_element_tags(tags, query) == {t \in tags : Contains(t.name, query)}

\* the UNIQUE name of the tag table: a row other than tag_id holds the name
tag_name_taken(tags, name, tag_id) == \E t \in tags : t.name = name /\ t.id # tag_id

\* update_*_element_tag: the fields that are given (a sequence of length 1)
\* replace those of the row
update_element_tag(tags, tag_id, name, color) ==
    {IF t.id = tag_id
     THEN [t EXCEPT !.name = IF name = <<>> THEN @ ELSE name[1],
                    !.color = IF color = <<>> THEN @ ELSE color[1]]
     ELSE t : t \in tags}

delete_element_tag(tags, tag_id) == {t \in tags : t.id # tag_id}

\* ON DELETE CASCADE of the association tables
cascade_tag_delete(assoc, tag_id) == [x \in DOMAIN assoc |-> assoc[x] \ {tag_id}]

get_tag_usage_count(assoc, tag_id) == Cardinality({x \in DOMAIN assoc : tag_id \in assoc[x]})

\* ---------------------------------------------------------------- tag managers
\* validate_tag_name: ^[a-zA-Z0-9\s_-]+$ on a name of 1..50 characters
MaxTagNameLen == 50

name_char(c) == IsLetter(c) \/ IsDigit(c) \/ IsSpace(c) \/ c \in {"_", "-"}

validate_tag_name(name) ==
    /\ ~(name = <<>> \/ is_blank(name))
    /\ Len(name) <= MaxTagNameLen
    /\ \A i \in 1..Len(name) : name_char(name[i])

\* ^#([A-Fa-f0-9]{6}|[A-Fa-f0-9]{3})$ anchored at both ends
hex_color(color) ==
    /\ Len(color) \in {4, 7}
    /\ color[1] = "#"
    /\ \A i \in 2..Len(color) : IsHexDigit(color[i])

\* validate_color: re.match, whose $ also matches before a newline that ends
\* the string
validate_color(color) ==
    /\ color # <<>>
    /\ \/ hex_color(color)
       \/ /\ color[Len(color)] = "\n"
          /\ hex_color(SubSeq(color, 1, Len(color) - 1))

\* what a manager call leaves behind: the method, its argument, what it
\* returned ("True", "False", "None", "tag", "list") or "raise" when an
\* exception left the method, the rows returned, the outcome of each store call
\* it made (FALSE: the call raised), how many of them were reads, whether the
\* tag asked for was in the cache before the call, the signals emitted
Args(id, name, color, refresh, tag_ids) ==
    [id |-> id, name |-> name, color |-> color, refresh |-> refresh, tag_ids |-> tag_ids]

NoArgs == Args(0, <<>>, <<>>, FALSE, {})

Call(name, args, result, value, calls, reads, hit, signals) ==
    [name |-> name, args |-> args, result |-> result, value |-> value, calls |-> calls,
     reads |-> reads, hit |-> hit, signals |-> signals]

NoCall == Call("init", NoArgs, "None", {}, <<>>, 0, FALSE, {})

ret(call) ==
    /\ last_call' = call
    /\ failures' = failures + Cardinality({i \in DOMAIN call.calls : ~call.calls[i]})
    /\ failures' <= MaxFailures

\* the association table of the manager's relations
manager_relation_tags == IF manager_kind = "area" THEN relation_tags ELSE project_relation_tags

set_manager_relation_tags(assoc) ==
    IF manager_kind = "area"
    THEN relation_tags' = assoc /\ UNCHANGED project_relation_tags
    ELSE project_relation_tags' = assoc /\ UNCHANGED relation_tags

\* everything of the windows and of AreaManager that a tag manager call leaves alone
window_vars == <<store_vars, current_area_id, selected_insert_position, filter_vars, canvas,
                 checked_widget, project_content, project_active_tag_filters,
                 project_tag_filter_match_all, project_canvas, last_op, tag_filter_widget,
                 filter_engine>>

area_manager_vars == <<areas, next_area_id, areas_cache>>

tag_manager_frame == UNCHANGED <<window_vars, area_manager_vars, manager_kind>>

assoc_vars == <<relation_tags, component_tags, project_relation_tags>>

\* invalidate_cache
invalidate_cache ==
    /\ tags_cache' = NoCache
    /\ ret(Call("invalidate_cache", NoArgs, "None", {}, <<>>, 0, FALSE, {"cache_invalidated"}))
    /\ UNCHANGED <<element_tags, next_tag_id, assoc_vars>>
    /\ tag_manager_frame

\* create_tag(name, color)
create_tag(name, color, fail) ==
    /\ next_tag_id <= NumTags
    /\ IF ~validate_tag_name(name) \/ ~validate_color(color)
       THEN /\ ret(Call("create_tag", Args(0, name, color, FALSE, {}), "None", {}, <<>>, 0, FALSE, {}))
            /\ UNCHANGED <<element_tags, next_tag_id, tags_cache>>
       ELSE IF 1 \in fail \/ tag_name_taken(element_tags, name, 0)
       THEN \* add_*_element_tag raised (ValueError for a name in use)
            /\ ret(Call("create_tag", Args(0, name, color, FALSE, {}), "None", {}, <<1 \notin fail>>, 0, FALSE, {}))
            /\ UNCHANGED <<element_tags, next_tag_id, tags_cache>>
       ELSE LET tag == TagRow(next_tag_id, name, color)
            IN  /\ element_tags' = element_tags \cup {tag}
                /\ next_tag_id' = next_tag_id + 1
                /\ IF 2 \in fail
                   THEN /\ ret(Call("create_tag", Args(0, name, color, FALSE, {}), "None", {},
                                    <<TRUE, FALSE>>, 1, FALSE, {}))
                        /\ UNCHANGED tags_cache
                   ELSE /\ tags_cache' = cache_tag(tags_cache, tag)
                        /\ ret(Call("create_tag", Args(0, name, color, FALSE, {}), "tag", {tag},
                                    <<TRUE, TRUE>>, 1, FALSE, {"tag_created"}))
    /\ UNCHANGED assoc_vars
    /\ tag_manager_frame

\* _load_cache as get_all_tags calls it: a failing read is caught and leaves
\* the cache as it was
load_cache(cache, tags, force, fail) ==
    IF ~cache.is_none /\ ~force THEN [cache |-> cache, calls |-> <<>>]
    ELSE IF 1 \in fail THEN [cache |-> cache, calls |-> <<FALSE>>]
    ELSE [cache |-> [is_none |-> FALSE, tags |-> tags], calls |-> <<TRUE>>]

\* get_all_tags(refresh)
get_all_tags(refresh, fail) ==
    /\ LET r == IF refresh \/ tags_cache.is_none
                THEN load_cache(tags_cache, element_tags, refresh, fail)
                ELSE [cache |-> tags_cache, calls |-> <<>>]
       IN  /\ tags_cache' = r.cache
           /\ ret(Call("get_all_tags", Args(0, <<>>, <<>>, refresh, {}), "list", r.cache.tags, r.calls,
                       Len(r.calls), FALSE, {}))
    /\ UNCHANGED <<element_tags, next_tag_id, assoc_vars>>
    /\ tag_manager_frame

\* a get_tag that does not keep what it read
get_tag_uncached(tag_id, fail) ==
    /\ LET cached == get_from_cache(tags_cache, tag_id)
           tag_data == get_element_tag_by_id(element_tags, tag_id)
       IN  IF cached # {}
           THEN ret(Call("get_tag", Args(tag_id, <<>>, <<>>, FALSE, {}), "tag", cached, <<>>,
                         0, TRUE, {}))
           ELSE IF 1 \in fail
           THEN ret(Call("get_tag", Args(tag_id, <<>>, <<>>, FALSE, {}), "raise", {},
                         <<FALSE>>, 1, FALSE, {}))
           ELSE ret(Call("get_tag", Args(tag_id, <<>>, <<>>, FALSE, {}),
                         IF tag_data # {} THEN "tag" ELSE "None", tag_data, <<TRUE>>, 1,
                         FALSE, {}))
    /\ UNCHANGED <<tags_cache, element_tags, next_tag_id, assoc_vars>>
    /\ tag_manager_frame

\* get_tag(tag_id)
get_tag(tag_id, fail) ==
    /\ LET cached == get_from_cache(tags_cache, tag_id)
           tag_data == get_element_tag_by_id(element_tags, tag_id)
       IN  IF cached # {}
           THEN /\ ret(Call("get_tag", Args(tag_id, <<>>, <<>>, FALSE, {}), "tag", cached, <<>>, 0, TRUE, {}))
                /\ UNCHANGED tags_cache
           ELSE IF 1 \in fail
           THEN /\ ret(Call("get_tag", Args(tag_id, <<>>, <<>>, FALSE, {}), "raise", {}, <<FALSE>>, 1, FALSE, {}))
                /\ UNCHANGED tags_cache
           ELSE /\ tags_cache' = cache_tags(tags_cache, tag_data)
                /\ ret(Call("get_tag", Args(tag_id, <<>>, <<>>, FALSE, {}), IF tag_data # {} THEN "tag" ELSE "None",
                            tag_data, <<TRUE>>, 1, FALSE, {}))
    /\ UNCHANGED <<element_tags, next_tag_id, assoc_vars>>
    /\ tag_manager_frame

\* get_tag_by_name(name)
get_tag_by_name(name, fail) ==
    /\ LET hit == \E t \in tags_cache.tags : t.name = name
           tag_data == get_element_tag_by_name(element_tags, name)
       IN  IF 1 \in fail
           THEN /\ ret(Call("get_tag_by_name", Args(0, name, <<>>, FALSE, {}), "raise", {}, <<FALSE>>, 1, hit, {}))
                /\ UNCHANGED tags_cache
           ELSE /\ tags_cache' = cache_tags(tags_cache, tag_data)
                /\ ret(Call("get_tag_by_name", Args(0, name, <<>>, FALSE, {}),
                            IF tag_data # {} THEN "tag" ELSE "None",
                            tag_data, <<TRUE>>, 1, hit, {}))
    /\ UNCHANGED <<element_tags, next_tag_id, assoc_vars>>
    /\ tag_manager_frame

\* search_tags(query) with a query that is not empty
search_tags(query, fail) ==
    /\ query # <<>>
    /\ LET tags == search_element_tags(element_tags, query)
       IN  IF 1 \in fail
           THEN /\ ret(Call("search_tags", Args(0, query, <<>>, FALSE, {}), "list", {}, <<FALSE>>, 1, FALSE, {}))
                /\ UNCHANGED tags_cache
           ELSE /\ tags_cache' = cache_tags(tags_cache, tags)
                /\ ret(Call("search_tags", Args(0, query, <<>>, FALSE, {}), "list", tags, <<TRUE>>, 1, FALSE, {}))
    /\ UNCHANGED <<element_tags, next_tag_id, assoc_vars>>
    /\ tag_manager_frame

\* get_relation_tags(relation_id): the tags the store associates with the
\* relation are cached and returned; a read that raises gives the empty list
get_relation_tags(relation_id, fail) ==
    /\ LET args == Args(relation_id, <<>>, <<>>, FALSE, {})
           tags == {t \in element_tags : /\ relation_id \in DOMAIN manager_relation_tags
                                         /\ t.id \in manager_relation_tags[relation_id]}
       IN  IF 1 \in fail
           THEN /\ ret(Call("get_relation_tags", args, "list", {}, <<FALSE>>, 1, FALSE, {}))
                /\ UNCHANGED tags_cache
           ELSE /\ tags_cache' = cache_tags(tags_cache, tags)
                /\ ret(Call("get_relation_tags", args, "list", tags, <<TRUE>>, 1, FALSE, {}))
    /\ UNCHANGED <<element_tags, next_tag_id, assoc_vars>>
    /\ tag_manager_frame

\* update_tag(tag_id, name, color): name and color are None (<<>>) or given
\* (<<value>>); "tag_id in self._tags_cache" raises TypeError on a cache that
\* is None, and the handler of Exception returns False
update_tag(tag_id, name, color, fail) ==
    /\ LET args == Args(tag_id, name, color, FALSE, {})
           updated == update_element_tag(element_tags, tag_id, name, color)
           tag_data == get_element_tag_by_id(updated, tag_id)
           quiet(calls) == /\ ret(Call("update_tag", args, "False", {}, calls, 0, FALSE, {}))
                           /\ UNCHANGED <<element_tags, tags_cache>>
       IN  IF name # <<>> /\ ~validate_tag_name(name[1]) THEN quiet(<<>>)
           ELSE IF color # <<>> /\ ~validate_color(color[1]) THEN quiet(<<>>)
           ELSE IF 1 \in fail THEN quiet(<<FALSE>>)
           ELSE IF name # <<>> /\ tag_name_taken(element_tags, name[1], tag_id)
           THEN quiet(<<TRUE>>)
           ELSE IF get_element_tag_by_id(element_tags, tag_id) = {} THEN quiet(<<TRUE>>)
           ELSE /\ element_tags' = updated
                /\ IF tags_cache.is_none
                   THEN /\ UNCHANGED tags_cache
                        /\ ret(Call("update_tag", args, "False", {}, <<TRUE>>, 0, FALSE, {}))
                   ELSE IF 2 \in fail
                   THEN /\ tags_cache' = cache_del(tags_cache, tag_id)
                        /\ ret(Call("update_tag", args, "False", {}, <<TRUE, FALSE>>, 1,
                                    FALSE, {}))
                   ELSE /\ tags_cache' = cache_tags(cache_del(tags_cache, tag_id), tag_data)
                        /\ ret(Call("update_tag", args, "True", tag_data, <<TRUE, TRUE>>, 1,
                                    FALSE, {"tag_updated"}))
    /\ UNCHANGED <<next_tag_id, assoc_vars>>
    /\ tag_manager_frame

\* delete_tag(tag_id): the usage count is read outside the try block; the
\* store's delete cascades to the association tables; the Project manager
\* tests "tag_id in self._tags_cache" without the None guard of the Area manager
delete_tag(tag_id, fail) ==
    /\ LET args == Args(tag_id, <<>>, <<>>, FALSE, {})
           exists == get_element_tag_by_id(element_tags, tag_id) # {}
           quiet(result, calls) ==
               /\ ret(Call("delete_tag", args, result, {}, calls, 1, FALSE, {}))
               /\ UNCHANGED <<element_tags, tags_cache, assoc_vars>>
       IN  IF 1 \in fail THEN quiet("raise", <<FALSE>>)
           ELSE IF 2 \in fail THEN quiet("False", <<TRUE, FALSE>>)
           ELSE IF ~exists THEN quiet("False", <<TRUE, TRUE>>)
           ELSE /\ element_tags' = delete_element_tag(element_tags, tag_id)
                /\ set_manager_relation_tags(cascade_tag_delete(manager_relation_tags, tag_id))
                /\ component_tags' = IF manager_kind = "area"
                                     THEN cascade_tag_delete(component_tags, tag_id)
                                     ELSE component_tags
                /\ IF manager_kind = "project" /\ tags_cache.is_none
                   THEN /\ UNCHANGED tags_cache
                        /\ ret(Call("delete_tag", args, "False", {}, <<TRUE, TRUE>>, 1,
                                    FALSE, {}))
                   ELSE /\ tags_cache' = cache_del(tags_cache, tag_id)
                        /\ ret(Call("delete_tag", args, "True", {}, <<TRUE, TRUE>>, 1,
                                    FALSE, {"tag_deleted"}))
    /\ UNCHANGED next_tag_id
    /\ tag_manager_frame

\* an assign that adds the tags to the ones the relation has
assign_tags_to_relation_additive(relation_id, tag_ids, fail) ==
    /\ LET args == Args(relation_id, <<>>, <<>>, FALSE, tag_ids)
       IN  IF 1 \in fail
           THEN /\ ret(Call("assign_tags_to_relation", args, "False", {}, <<FALSE>>, 0, FALSE, {}))
                /\ UNCHANGED assoc_vars
           ELSE /\ set_manager_relation_tags(
                      [manager_relation_tags EXCEPT ![relation_id] = @ \cup tag_ids])
                /\ UNCHANGED component_tags
                /\ ret(Call("assign_tags_to_relation", args, "True", {}, <<TRUE>>, 0, FALSE,
                            IF tag_ids = {} THEN {} ELSE {"tag_associated"}))
    /\ UNCHANGED <<element_tags, next_tag_id, tags_cache>>
    /\ tag_manager_frame

\* assign_tags_to_relation(relation_id, tag_ids): update_*_relation_tags of the
\* store replaces the associations of the relation
assign_tags_to_relation(relation_id, tag_ids, fail) ==
    /\ LET args == Args(relation_id, <<>>, <<>>, FALSE, tag_ids)
       IN  IF 1 \in fail
           THEN /\ ret(Call("assign_tags_to_relation", args, "False", {}, <<FALSE>>, 0, FALSE, {}))
                /\ UNCHANGED assoc_vars
           ELSE /\ set_manager_relation_tags(
                      [manager_relation_tags EXCEPT ![relation_id] = tag_ids])
                /\ UNCHANGED component_tags
                /\ ret(Call("assign_tags_to_relation", args, "True", {}, <<TRUE>>, 0, FALSE,
                            IF tag_ids = {} THEN {} ELSE {"tag_associated"}))
    /\ UNCHANGED <<element_tags, next_tag_id, tags_cache>>
    /\ tag_manager_frame

\* add_tag_to_relation(relation_id, tag_id)
add_tag_to_relation(relation_id, tag_id, fail) ==
    /\ LET args == Args(relation_id, <<>>, <<>>, FALSE, {tag_id})
       IN  IF 1 \in fail
           THEN /\ ret(Call("add_tag_to_relation", args, "False", {}, <<FALSE>>, 0, FALSE, {}))
                /\ UNCHANGED assoc_vars
           ELSE /\ set_manager_relation_tags(
                      [manager_relation_tags EXCEPT ![relation_id] = @ \cup {tag_id}])
                /\ UNCHANGED component_tags
                /\ ret(Call("add_tag_to_relation", args, "True", {}, <<TRUE>>, 0, FALSE,
                            {"tag_associated"}))
    /\ UNCHANGED <<element_tags, next_tag_id, tags_cache>>
    /\ tag_manager_frame

\* remove_tag_from_relation(relation_id, tag_id)
remove_tag_from_relation(relation_id, tag_id, fail) ==
    /\ LET args == Args(relation_id, <<>>, <<>>, FALSE, {tag_id})
       IN  IF 1 \in fail
           THEN /\ ret(Call("remove_tag_from_relation", args, "False", {}, <<FALSE>>, 0,
                            FALSE, {}))
                /\ UNCHANGED assoc_vars
           ELSE /\ set_manager_relation_tags(
                      [manager_relation_tags EXCEPT ![relation_id] = @ \ {tag_id}])
                /\ UNCHANGED component_tags
                /\ ret(Call("remove_tag_from_relation", args,
                            IF tag_id \in manager_relation_tags[relation_id]
                            THEN "True" ELSE "False",
                            {}, <<TRUE>>, 0, FALSE,
                            IF tag_id \in manager_relation_tags[relation_id]
                            THEN {"tag_removed"} ELSE {}))
    /\ UNCHANGED <<element_tags, next_tag_id, tags_cache>>
    /\ tag_manager_frame

\* AreaElementTagManager.assign_tags_to_component(component_id, tag_ids)
assign_tags_to_component(component_id, tag_ids, fail) ==
    /\ manager_kind = "area"
    /\ LET args == Args(component_id, <<>>, <<>>, FALSE, tag_ids)
       IN  IF 1 \in fail
           THEN /\ ret(Call("assign_tags_to_component", args, "False", {}, <<FALSE>>, 0,
                            FALSE, {}))
                /\ UNCHANGED assoc_vars
           ELSE /\ component_tags' = [component_tags EXCEPT ![component_id] = tag_ids]
                /\ UNCHANGED <<relation_tags, project_relation_tags>>
                /\ ret(Call("assign_tags_to_component", args, "True", {}, <<TRUE>>, 0, FALSE,
                            IF tag_ids = {} THEN {} ELSE {"tag_associated"}))
    /\ UNCHANGED <<element_tags, next_tag_id, tags_cache>>
    /\ tag_manager_frame

\* ---------------------------------------------------------------- area store
AreaRow(id, name, is_active) == [id |-> id, name |-> name, is_active |-> is_active]

\* the areas of a store that holds NumAreas areas
InitAreas == {AreaRow(a, Repeat("a", a), TRUE) : a \in AreaIds}

\* get_all_areas(active_only)
get_all_areas(rows, active_only) == {a \in rows : a.is_active \/ ~active_only}

\* the UNIQUE name of the areas table: a row other than area_id holds the name
area_name_taken(rows, name, area_id) == \E a \in rows : a.name = name /\ a.id # area_id

\* ---------------------------------------------------------------- AreaManager (areas)
MaxAreaNameLen == 100

\* a uniqueness check that compares the names as they are written
validate_area_name_exact(rows, name) ==
    /\ ~(name = <<>> \/ is_blank(name))
    /\ Len(name) <= MaxAreaNameLen
    /\ \A a \in get_all_areas(rows, FALSE) : a.name # name

\* AreaManager.validate_area_name(name) (exclude_id is None for every caller)
validate_area_name(rows, name) ==
    /\ ~(name = <<>> \/ is_blank(name))
    /\ Len(name) <= MaxAreaNameLen
    /\ \A a \in get_all_areas(rows, FALSE) : lower(a.name) # lower(name)

\* del self._areas_cache[area_id], then _cache_area(area)
cache_area(cache, area) == {a \in cache : a.id # area.id} \cup {area}

tag_manager_vars == <<manager_kind, element_tags, next_tag_id, tags_cache>>

area_manager_frame ==
    UNCHANGED <<tag_manager_vars, current_area_id, selected_insert_position, filter_vars, canvas,
                checked_widget, project_vars, last_op, tag_filter_widget, filter_engine>>

\* AreaManager.create_area(name)
create_area(name) ==
    /\ next_area_id <= MaxAreaId
    /\ IF ~validate_area_name(areas, name)
       THEN /\ ret(Call("create_area", Args(0, name, <<>>, FALSE, {}), "None", {},
                        <<TRUE>>, 1, FALSE, {}))
            /\ UNCHANGED <<areas, next_area_id, areas_cache>>
       ELSE IF area_name_taken(areas, name, 0)
       THEN \* add_area raised, caught by create_area
            /\ ret(Call("create_area", Args(0, name, <<>>, FALSE, {}), "None", {},
                        <<TRUE, TRUE>>, 1, FALSE, {}))
            /\ UNCHANGED <<areas, next_area_id, areas_cache>>
       ELSE LET area == AreaRow(next_area_id, name, TRUE)
            IN  /\ areas' = areas \cup {area}
                /\ next_area_id' = next_area_id + 1
                /\ areas_cache' = cache_area(areas_cache, area)
                /\ ret(Call("create_area", Args(0, name, <<>>, FALSE, {}), "area", {area},
                            <<TRUE, TRUE, TRUE>>, 2, FALSE, {"area_created"}))
    /\ UNCHANGED <<store_vars, assoc_vars>>
    /\ area_manager_frame

\* AreaManager.update_area(area_id, name=name): there is no try block, the
\* store's uniqueness violation leaves the method as an exception
update_area(area_id, name) ==
    /\ LET args == Args(area_id, name, <<>>, FALSE, {})
           old == {a \in areas : a.id = area_id}
           area == AreaRow(area_id, name, (CHOOSE a \in old : TRUE).is_active)
       IN  IF old = {}
           THEN /\ ret(Call("update_area", args, "False", {}, <<TRUE>>, 0, FALSE, {}))
                /\ UNCHANGED <<areas, areas_cache>>
           ELSE IF area_name_taken(areas, name, area_id)
           THEN /\ ret(Call("update_area", args, "raise", {}, <<TRUE>>, 0, FALSE, {}))
                /\ UNCHANGED <<areas, areas_cache>>
           ELSE /\ areas' = (areas \ old) \cup {area}
                /\ areas_cache' = cache_area(areas_cache, area)
                /\ ret(Call("update_area", args, "True", {area}, <<TRUE, TRUE>>, 1, FALSE,
                            {"area_updated"}))
    /\ UNCHANGED <<next_area_id, store_vars, assoc_vars>>
    /\ area_manager_frame

\* AreaManager.delete_area(area_id): the store deletes the area with its
\* relations and components
delete_area(area_id) ==
    /\ LET args == Args(area_id, <<>>, <<>>, FALSE, {})
           gone_relations == {r.id : r \in get_area_relations(area_relations, area_id)}
           gone_components == {c.id : c \in get_area_components(area_components, area_id)}
       IN  IF \A a \in areas : a.id # area_id
           THEN /\ ret(Call("delete_area", args, "False", {}, <<TRUE>>, 0, FALSE, {}))
                /\ UNCHANGED <<areas, areas_cache, area_relations, area_components, tag_vars>>
           ELSE /\ areas' = {a \in areas : a.id # area_id}
                /\ areas_cache' = {a \in areas_cache : a.id # area_id}
                /\ area_relations' = {r \in area_relations : r.area_id # area_id}
                /\ area_components' = {c \in area_components : c.area_id # area_id}
                /\ relation_tags' = [r \in DOMAIN relation_tags |->
                                        IF r \in gone_relations THEN {} ELSE relation_tags[r]]
                /\ component_tags' = [c \in DOMAIN component_tags |->
                                         IF c \in gone_components THEN {} ELSE component_tags[c]]
                /\ ret(Call("delete_area", args, "True", {}, <<TRUE>>, 0, FALSE,
                            {"area_deleted"}))
    /\ UNCHANGED <<next_area_id, next_relation_id, next_component_id, project_relation_tags>>
    /\ area_manager_frame

\* " (Copia)"
CopySuffix == <<" ", "(", "C", "o", "p", "i", "a", ")">>

\* a copy that numbers the copied rows 0, 1, ... in their own table
copy_rows_renumbered(src, new_area_id, first_id) ==
    {[src[i] EXCEPT !.id = first_id + i - 1, !.area_id = new_area_id, !.order_index = i - 1] :
        i \in 1..Len(src)}

\* the rows of src copied into area new_area_id with the ids first_id, first_id + 1, ...
copy_rows(src, new_area_id, first_id) ==
    {[src[i] EXCEPT !.id = first_id + i - 1, !.area_id = new_area_id] : i \in 1..Len(src)}

\* AreaManager.duplicate_area(area_id, new_name): new_name is None (<<>>) or
\* given (<<value>>); the relations and components are copied, their tags are not
duplicate_area(area_id, new_name) ==
    /\ next_area_id <= MaxAreaId
    /\ \A i \in 1..Cardinality(get_area_relations(area_relations, area_id)) :
          (next_relation_id + i - 1) \in DOMAIN relation_tags
    /\ \A i \in 1..Cardinality(get_area_components(area_components, area_id)) :
          (next_component_id + i - 1) \in DOMAIN component_tags
    /\ LET args == Args(area_id, new_name, <<>>, FALSE, {})
           original == {a \in areas : a.id = area_id}
           name == IF new_name = <<>> \/ new_name[1] = <<>>
                   THEN (CHOOSE a \in original : TRUE).name \o CopySuffix
                   ELSE new_name[1]
           new_area == AreaRow(next_area_id, name, TRUE)
           quiet(calls) == /\ ret(Call("duplicate_area", args, "None", {}, calls, Len(calls),
                                       FALSE, {}))
                           /\ UNCHANGED <<areas, next_area_id, areas_cache, store_vars>>
       IN  IF original = {} THEN quiet(<<TRUE>>)
           ELSE IF ~validate_area_name(areas, name) THEN quiet(<<TRUE, TRUE>>)
           ELSE IF area_name_taken(areas, name, 0) THEN quiet(<<TRUE, TRUE, TRUE>>)
           ELSE \E relations \in Orderings(get_area_relations(area_relations, area_id)),
                   components \in Orderings(get_area_components(area_components, area_id)) :
                  /\ areas' = areas \cup {new_area}
                  /\ next_area_id' = next_area_id + 1
                  /\ areas_cache' = cache_area(areas_cache, new_area)
                  /\ area_relations' = area_relations
                         \cup copy_rows(relations, next_area_id, next_relation_id)
                  /\ next_relation_id' = next_relation_id + Len(relations)
                  /\ area_components' = area_components
                         \cup copy_rows(components, next_area_id, next_component_id)
                  /\ next_component_id' = next_component_id + Len(components)
                  /\ ret(Call("duplicate_area", args, "area", {new_area},
                              [i \in 1..(6 + Len(relations) + Len(components)) |-> TRUE],
                              4, FALSE, {"area_created"}))
    /\ UNCHANGED assoc_vars
    /\ area_manager_frame

\* ---------------------------------------------------------------- AreaManager (content)
\* AreaRelation.VALID_ENTITY_TYPES, AreaComponent.VALID_COMPONENT_TYPES
VALID_ENTITY_TYPES == {"tag", "process", "list", "table", "category", "item"}

VALID_COMPONENT_TYPES == {"divider", "comment", "alert", "note"}

validate_entity_type(entity_type) == entity_type \in VALID_ENTITY_TYPES

\* the arguments of a content call: order_index is None (<<>>) or given (<<value>>)
ContentArgs(area_id, type, entity_id, content, order_index) ==
    [area_id |-> area_id, type |-> type, entity_id |-> entity_id, content |-> content,
     order_index |-> order_index]

content_frame ==
    /\ UNCHANGED <<assoc_vars, areas, next_area_id, areas_cache>>
    /\ area_manager_frame

\* AreaManager.add_entity_to_area: the two reads of the order_index=None branch
\* are made outside the try block, the insert inside it
add_entity_to_area(area_id, entity_type, entity_id, description, order_index, fail) ==
    /\ next_relation_id \in DOMAIN relation_tags
    /\ LET args == ContentArgs(area_id, entity_type, entity_id, description, order_index)
           reads == IF order_index = <<>> THEN 2 ELSE 0
           index == IF order_index = <<>>
                    THEN entity_append_order_index(area_relations, area_components, area_id)
                    ELSE order_index[1]
           row == RelationRow(next_relation_id, area_id, entity_type, entity_id, description,
                              index)
           quiet(result, calls) ==
               /\ ret(Call("add_entity_to_area", args, result, {}, calls, reads, FALSE, {}))
               /\ UNCHANGED store_vars
       IN  IF ~validate_entity_type(entity_type) THEN quiet("False", <<>>)
           ELSE IF \E k \in 1..reads : k \in fail
           THEN quiet("raise", [i \in 1..FirstFail(fail, 0, reads) |->
                                    i # FirstFail(fail, 0, reads)])
           ELSE IF (reads + 1) \in fail
           THEN quiet("False", [i \in 1..(reads + 1) |-> i # reads + 1])
           ELSE /\ area_relations' = area_relations \cup {row}
                /\ next_relation_id' = next_relation_id + 1
                /\ UNCHANGED <<area_components, next_component_id>>
                /\ ret(Call("add_entity_to_area", args, "True", {row},
                            [i \in 1..(reads + 1) |-> TRUE], reads, FALSE, {"relation_added"}))
    /\ content_frame

\* AreaManager.remove_entity_from_area: the store removes the relations of the
\* area that hold the entity, with their tag associations
remove_entity_from_area(area_id, entity_type, entity_id) ==
    /\ LET args == ContentArgs(area_id, entity_type, entity_id, "", <<>>)
           gone == {r \in area_relations : /\ r.area_id = area_id
                                           /\ r.entity_type = entity_type
                                           /\ r.entity_id = entity_id}
       IN  /\ area_relations' = area_relations \ gone
           /\ relation_tags' = [r \in DOMAIN relation_tags |->
                                   IF \E g \in gone : g.id = r THEN {} ELSE relation_tags[r]]
           /\ ret(Call("remove_entity_from_area", args, IF gone # {} THEN "True" ELSE "False",
                       gone, <<TRUE>>, 0, FALSE,
                       IF gone # {} THEN {"relation_removed"} ELSE {}))
    /\ UNCHANGED <<area_components, next_relation_id, next_component_id, component_tags,
                   project_relation_tags, areas, next_area_id, areas_cache>>
    /\ area_manager_frame

\* AreaManager.add_component_to_area: component_type and content go to the
\* store as they are given
add_component_to_area(area_id, component_type, content, order_index, fail) ==
    /\ next_component_id \in DOMAIN component_tags
    /\ LET args == ContentArgs(area_id, component_type, 0, content, order_index)
           reads == IF order_index = <<>> THEN 2 ELSE 0
           index == IF order_index = <<>>
                    THEN component_append_order_index(area_relations, area_components, area_id)
                    ELSE order_index[1]
           row == ComponentRow(next_component_id, area_id, component_type, content, index)
           quiet(result, calls) ==
               /\ ret(Call("add_component_to_area", args, result, {}, calls, reads, FALSE, {}))
               /\ UNCHANGED store_vars
       IN  IF \E k \in 1..reads : k \in fail
           THEN quiet("raise", [i \in 1..FirstFail(fail, 0, reads) |->
                                    i # FirstFail(fail, 0, reads)])
           ELSE IF (reads + 1) \in fail
           THEN quiet("False", [i \in 1..(reads + 1) |-> i # reads + 1])
           ELSE /\ area_components' = area_components \cup {row}
                /\ next_component_id' = next_component_id + 1
                /\ UNCHANGED <<area_relations, next_relation_id>>
                /\ ret(Call("add_component_to_area", args, "True", {row},
                            [i \in 1..(reads + 1) |-> TRUE], reads, FALSE, {"component_added"}))
    /\ content_frame

\* ---------------------------------------------------------------- AreaFilterEngine
\* AreaFilterEngine.__init__: no active area, an empty _entity_cache; a cache
\* entry is [area_id, entity_type, entity_ids] for the key "<area_id>_<entity_type>"
NoEngine == [active_area_filter |-> None, entity_cache |-> {}]

\* ---------------------------------------------------------------- specifications
\* a window just constructed over a store without content
Init ==
    /\ area_relations = {}
    /\ area_components = {}
    /\ next_relation_id = 1
    /\ next_component_id = 1
    /\ relation_tags = [r \in 1..MaxRelationId |-> {}]
    /\ component_tags = [c \in 1..MaxComponentId |-> {}]
    /\ current_area_id = None
    /\ selected_insert_position = NoPosition
    /\ active_tag_filters = {}
    /\ tag_filter_match_all = FALSE
    /\ canvas = <<>>
    /\ checked_widget = NoPosition
    /\ project_content = <<>>
    /\ project_relation_tags = <<>>
    /\ project_active_tag_filters = {}
    /\ project_tag_filter_match_all = FALSE
    /\ project_canvas = <<>>
    /\ failures = 0
    /\ last_op = Op("init", NoPosition, <<>>, {})
    /\ manager_kind = "area"
    /\ element_tags = {}
    /\ next_tag_id = 1
    /\ tags_cache = loaded_cache({})
    /\ last_call = NoCall
    /\ areas = InitAreas
    /\ next_area_id = NumAreas + 1
    /\ areas_cache = {}
    /\ tag_filter_widget = NoWidget
    /\ filter_engine = NoEngine

\* the user's actions on the Areas window; every store write succeeds
Next ==
    \/ \E a \in AreaIds : on_area_selected(a)
    \/ on_refresh_area
    \/ \E w \in Range(canvas), checked \in BOOLEAN : on_checkbox_changed(w, checked)
    \/ \E w \in Range(canvas) : on_move_up(w, NoFail)
    \/ \E w \in Range(canvas) : on_move_down(w, NoFail)
    \/ on_entity_selected("item", 1, "", {}, NoFail)
    \/ add_component("note", "x", {}, NoFail)
    \/ \E w \in Range(canvas) : on_relation_delete(w, NoFail)
    \/ \E w \in Range(canvas) : on_component_delete(w, NoFail)

Spec == Init /\ [][Next]_vars

\* the same actions when store writes may raise
NextFail ==
    \/ \E a \in AreaIds : on_area_selected(a)
    \/ on_refresh_area
    \/ \E w \in Range(canvas), checked \in BOOLEAN : on_checkbox_changed(w, checked)
    \/ \E w \in Range(canvas), fail \in FailSets : on_move_up(w, fail)
    \/ \E w \in Range(canvas), fail \in FailSets : on_move_down(w, fail)
    \/ \E fail \in FailSets : on_entity_selected("item", 1, "", {}, fail)
    \/ \E fail \in FailSets : add_component("note", "x", {}, fail)
    \/ \E w \in Range(canvas), fail \in FailSets : on_relation_delete(w, fail)
    \/ \E w \in Range(canvas), fail \in FailSets : on_component_delete(w, fail)

SpecFail == Init /\ [][NextFail]_vars

\* a window just constructed over a store that holds tags and no content: the
\* filter widget has loaded every tag
InitInsert ==
    /\ area_relations = {}
    /\ area_components = {}
    /\ next_relation_id = 1
    /\ next_component_id = 1
    /\ relation_tags = [r \in 1..MaxRelationId |-> {}]
    /\ component_tags = [c \in 1..MaxTaggedComponentId |-> {}]
    /\ current_area_id = None
    /\ selected_insert_position = NoPosition
    /\ active_tag_filters = {}
    /\ tag_filter_match_all = FALSE
    /\ canvas = <<>>
    /\ checked_widget = NoPosition
    /\ project_content = <<>>
    /\ project_relation_tags = <<>>
    /\ project_active_tag_filters = {}
    /\ project_tag_filter_match_all = FALSE
    /\ project_canvas = <<>>
    /\ failures = 0
    /\ last_op = Op("init", NoPosition, <<>>, {})
    /\ manager_kind = "area"
    /\ element_tags = {TagRow(t, Repeat("a", t), Fff) : t \in TagIds}
    /\ next_tag_id = NumTags + 1
    /\ tags_cache = loaded_cache(element_tags)
    /\ last_call = NoCall
    /\ areas = InitAreas
    /\ next_area_id = NumAreas + 1
    /\ areas_cache = {}
    /\ tag_filter_widget = TagFilterWidget(None, TagIds, {}, FALSE)
    /\ filter_engine = NoEngine

\* insertions with the tags chosen in the dialogs
NextInsert ==
    \/ \E a \in AreaIds : on_area_selected(a)
    \/ \E w \in Range(canvas), checked \in BOOLEAN : on_checkbox_changed(w, checked)
    \/ \E tag_ids \in SUBSET TagIds : on_entity_selected("item", 1, "", tag_ids, NoFail)
    \/ \E tag_ids \in SUBSET TagIds : add_component("note", "x", tag_ids, NoFail)

SpecInsert == InitInsert /\ [][NextInsert]_vars

\* AreasWindow._on_tag_filter_changed, emitted by the tag filter widget
on_tag_filter_changed(tag_ids, match_all) ==
    /\ active_tag_filters' = tag_ids
    /\ tag_filter_match_all' = match_all
    /\ IF current_area_id # None
       THEN load_area_filtered(current_area_id, area_relations, area_components,
                               relation_tags, component_tags, tag_ids, match_all)
       ELSE no_reload
    /\ log("tag_filter", NoPosition, <<>>, {})
    /\ UNCHANGED <<store_vars, tag_vars, project_vars, manager_vars, selected_insert_position>>

\* ProjectsWindow._on_tag_filter_changed followed by load_project
project_on_tag_filter_changed(tag_ids, match_all) ==
    /\ project_active_tag_filters' = tag_ids
    /\ project_tag_filter_match_all' = match_all
    /\ project_canvas' = IF tag_ids # {}
                         THEN project_filter_content_by_tags(project_content, tag_ids, match_all,
                                                             project_relation_tags)
                         ELSE project_content
    /\ log("project_tag_filter", NoPosition, <<>>, {})
    /\ UNCHANGED <<store_vars, tag_vars, filter_vars, current_area_id, canvas, checked_widget,
                   selected_insert_position, project_content, project_relation_tags,
                   manager_vars, tags_cache, areas_cache, tag_filter_widget>>

\* an area and a project with the same content (relations at the even
\* positions, components at the odd ones) and any tag associations of the
\* relations and components, both shown unfiltered
FilterRelations == {RelationRow(i, 1, "item", i, "", 2 * (i - 1)) : i \in 1..MaxRelationId}

FilterComponents == {ComponentRow(i, 1, "note", "x", 2 * i - 1) : i \in 1..MaxComponentId}

InitFilter ==
    /\ area_relations = FilterRelations
    /\ area_components = FilterComponents
    /\ next_relation_id = MaxRelationId + 1
    /\ next_component_id = MaxComponentId + 1
    /\ relation_tags \in [1..MaxRelationId -> SUBSET TagIds]
    /\ component_tags \in [1..MaxComponentId -> SUBSET TagIds]
    /\ current_area_id = 1
    /\ selected_insert_position = NoPosition
    /\ active_tag_filters = {}
    /\ tag_filter_match_all = FALSE
    /\ canvas \in get_area_content_ordered(FilterRelations, FilterComponents, 1)
    /\ checked_widget = NoPosition
    /\ project_content = canvas
    /\ project_relation_tags = relation_tags
    /\ project_active_tag_filters = {}
    /\ project_tag_filter_match_all = FALSE
    /\ project_canvas = project_content
    /\ failures = 0
    /\ last_op = Op("init", NoPosition, <<>>, {})
    /\ manager_kind = "area"
    /\ element_tags = {TagRow(t, Repeat("a", t), Fff) : t \in TagIds}
    /\ next_tag_id = NumTags + 1
    /\ tags_cache = loaded_cache(element_tags)
    /\ last_call = NoCall
    /\ areas = InitAreas
    /\ next_area_id = NumAreas + 1
    /\ areas_cache = {a \in InitAreas : a.id = 1}
    /\ tag_filter_widget =
          TagFilterWidget(1, area_tag_ids(1, FilterRelations, FilterComponents, relation_tags,
                                          component_tags), {}, FALSE)
    /\ filter_engine = NoEngine

NextFilter ==
    \/ \E tag_ids \in SUBSET TagIds, match_all \in BOOLEAN :
          on_tag_filter_changed(tag_ids, match_all)
    \/ \E tag_ids \in SUBSET TagIds, match_all \in BOOLEAN :
          project_on_tag_filter_changed(tag_ids, match_all)

SpecFilter == InitFilter /\ [][NextFilter]_vars

\* ---------------------------------------------------------------- tag manager runs
\* names and colors given to the managers
TagNames == {<<>>, <<" ">>, <<"b">>, ValidName, BadName, Repeat("a", MaxTagNameLen),
             Repeat("a", MaxTagNameLen + 1), <<"a", "\t", "b">>}

Colors == {Fff, Ffffff, <<"f", "f", "f">>, Ggg, <<>>, <<"#", "f", "f", "f", "\n">>}

\* create_tag is called with any of the names and a good color, or with a
\* good name and any of the colors
CreateInputs == {<<n, Fff>> : n \in TagNames} \cup {<<ValidName, c>> : c \in Colors}

\* the calls of the everyday use of a manager
FewCreateInputs == {<<<<"b">>, Fff>>, <<ValidName, Fff>>, <<BadName, Fff>>, <<ValidName, Ggg>>}

FewNames == {<<"b">>, ValidName}

\* update_tag is called with a name or with a color
UpdateInputs == {<<<<ValidName>>, <<>>>>, <<<<BadName>>, <<>>>>, <<<<>>, <<Ffffff>>>>,
                 <<<<>>, <<Ggg>>>>}

ExistingTagIds == {t.id : t \in element_tags}

\* a manager just constructed over a store that holds the relations and
\* components of one area (or project) and at most one tag, which some of
\* them carry
InitTags ==
    /\ area_relations = FilterRelations
    /\ area_components = FilterComponents
    /\ next_relation_id = MaxRelationId + 1
    /\ next_component_id = MaxComponentId + 1
    /\ current_area_id = None
    /\ selected_insert_position = NoPosition
    /\ active_tag_filters = {}
    /\ tag_filter_match_all = FALSE
    /\ canvas = <<>>
    /\ checked_widget = NoPosition
    /\ project_content = <<>>
    /\ project_active_tag_filters = {}
    /\ project_tag_filter_match_all = FALSE
    /\ project_canvas = <<>>
    /\ failures = 0
    /\ last_op = Op("init", NoPosition, <<>>, {})
    /\ manager_kind \in {"area", "project"}
    /\ \E n \in 0..1 :
          /\ element_tags = {TagRow(i, <<"b">>, Fff) : i \in 1..n}
          /\ next_tag_id = n + 1
          /\ IF manager_kind = "area"
             THEN /\ relation_tags \in [1..MaxRelationId -> SUBSET (1..n)]
                  /\ component_tags \in [1..MaxComponentId -> SUBSET (1..n)]
                  /\ project_relation_tags = [r \in 1..MaxRelationId |-> {}]
             ELSE /\ relation_tags = [r \in 1..MaxRelationId |-> {}]
                  /\ component_tags = [c \in 1..MaxComponentId |-> {}]
                  /\ project_relation_tags \in [1..MaxRelationId -> SUBSET (1..n)]
    /\ tags_cache = NoCache
    /\ last_call = NoCall
    /\ areas = InitAreas
    /\ next_area_id = NumAreas + 1
    /\ areas_cache = {}
    /\ tag_filter_widget = NoWidget
    /\ filter_engine = NoEngine

\* the calls the UI makes on a tag manager; every store call succeeds
NextTags ==
    \/ invalidate_cache
    \/ \E input \in FewCreateInputs : create_tag(input[1], input[2], NoFail)
    \/ \E refresh \in BOOLEAN : get_all_tags(refresh, NoFail)
    \/ \E t \in TagIds : get_tag(t, NoFail)
    \/ \E name \in FewNames : get_tag_by_name(name, NoFail)
    \/ search_tags(<<"a">>, NoFail)
    \/ \E t \in TagIds, input \in UpdateInputs : update_tag(t, input[1], input[2], NoFail)
    \/ \E t \in TagIds : delete_tag(t, NoFail)

SpecTags == InitTags /\ [][NextTags]_vars

\* the same calls when store calls may raise
NextTagsFail ==
    \/ invalidate_cache
    \/ \E input \in FewCreateInputs, fail \in FailSets : create_tag(input[1], input[2], fail)
    \/ \E refresh \in BOOLEAN, fail \in FailSets : get_all_tags(refresh, fail)
    \/ \E t \in TagIds, fail \in FailSets : get_tag(t, fail)
    \/ \E name \in FewNames, fail \in FailSets : get_tag_by_name(name, fail)
    \/ \E fail \in FailSets : search_tags(<<"a">>, fail)
    \/ \E t \in TagIds, input \in UpdateInputs, fail \in FailSets :
          update_tag(t, input[1], input[2], fail)
    \/ \E t \in TagIds, fail \in FailSets : delete_tag(t, fail)

SpecTagsFail == InitTags /\ [][NextTagsFail]_vars

\* every call that reads or writes the cache, when store calls may raise
NextCache ==
    \/ NextTagsFail
    \/ \E r \in 1..MaxRelationId, fail \in FailSets : get_relation_tags(r, fail)

SpecCache == InitTags /\ [][NextCache]_vars

\* create_tag and the reads, over every name and color
NextCreate ==
    \/ \E input \in CreateInputs : create_tag(input[1], input[2], NoFail)
    \/ \E refresh \in BOOLEAN : get_all_tags(refresh, NoFail)
    \/ \E t \in TagIds : delete_tag(t, NoFail)

SpecCreate == InitTags /\ [][NextCreate]_vars

\* the association calls over the tags the store holds
NextAssoc ==
    \/ \E input \in FewCreateInputs : create_tag(input[1], input[2], NoFail)
    \/ \E r \in 1..MaxRelationId, S \in SUBSET ExistingTagIds :
          assign_tags_to_relation(r, S, NoFail)
    \/ \E r \in 1..MaxRelationId, t \in ExistingTagIds : add_tag_to_relation(r, t, NoFail)
    \/ \E r \in 1..MaxRelationId, t \in ExistingTagIds : remove_tag_from_relation(r, t, NoFail)
    \/ \E c \in 1..MaxComponentId, S \in SUBSET ExistingTagIds :
          assign_tags_to_component(c, S, NoFail)

SpecAssoc == InitTags /\ [][NextAssoc]_vars

\* ---------------------------------------------------------------- area manager runs
AreaNames == {<<>>, <<" ">>, <<"a">>, <<"A">>, <<"b">>, <<"d">>,
              Repeat("a", MaxAreaNameLen), Repeat("a", MaxAreaNameLen + 1)}

\* a store with an active area "a" that holds a relation and a component,
\* and an inactive area "B"
InitAreaManager ==
    /\ area_relations = {RelationRow(1, 1, "item", 1, "d", 0)}
    /\ area_components = {ComponentRow(1, 1, "note", "x", 1)}
    /\ next_relation_id = 2
    /\ next_component_id = 2
    /\ relation_tags = [r \in 1..MaxCopyId |-> IF r = 1 THEN {1} ELSE {}]
    /\ component_tags = [c \in 1..MaxCopyId |-> IF c = 1 THEN {1} ELSE {}]
    /\ current_area_id = None
    /\ selected_insert_position = NoPosition
    /\ active_tag_filters = {}
    /\ tag_filter_match_all = FALSE
    /\ canvas = <<>>
    /\ checked_widget = NoPosition
    /\ project_content = <<>>
    /\ project_relation_tags = <<>>
    /\ project_active_tag_filters = {}
    /\ project_tag_filter_match_all = FALSE
    /\ project_canvas = <<>>
    /\ failures = 0
    /\ last_op = Op("init", NoPosition, <<>>, {})
    /\ manager_kind = "area"
    /\ element_tags = {TagRow(1, <<"b">>, Fff)}
    /\ next_tag_id = 2
    /\ tags_cache = NoCache
    /\ last_call = NoCall
    /\ areas = {AreaRow(1, <<"a">>, TRUE), AreaRow(2, <<"B">>, FALSE)}
    /\ next_area_id = 3
    /\ areas_cache = {}
    /\ tag_filter_widget = NoWidget
    /\ filter_engine = NoEngine

NextAreaManager ==
    \/ \E name \in AreaNames : create_area(name)
    \/ \E a \in 1..MaxAreaId, name \in {<<"A">>, <<"B">>, <<"d">>} : update_area(a, name)
    \/ \E a \in 1..MaxAreaId : delete_area(a)
    \/ \E a \in 1..MaxAreaId, new_name \in {<<>>, <<<<"d">>>>, <<<<"A">>>>} :
          duplicate_area(a, new_name)

SpecAreas == InitAreaManager /\ [][NextAreaManager]_vars

\* the calls that add content to an area and remove it, with good and bad
\* types and with and without content
NextContent ==
    \/ \E entity_type \in {"item", "tags"}, order_index \in {<<>>, <<0>>} :
          add_entity_to_area(1, entity_type, 2, "", order_index, NoFail)
    \/ \E entity_id \in 1..2 : remove_entity_from_area(1, "item", entity_id)
    \/ \E component_type \in {"note", "divider", "notes"}, content \in {"", "x"},
          order_index \in {<<>>, <<0>>} :
          add_component_to_area(1, component_type, content, order_index, NoFail)

SpecContent == InitAreaManager /\ [][NextContent]_vars

\* ---------------------------------------------------------------- tag filter widget runs
\* AreaTagFilterWidget._on_filter_changed: filter_changed is emitted with the
\* checked tag ids and match_all, AreasWindow._on_tag_filter_changed stores
\* them and reloads the current area (which sets the widget's area again)
widget_filter_changed(widget) ==
    /\ active_tag_filters' = widget.checked
    /\ tag_filter_match_all' = widget.match_all
    /\ IF current_area_id # None
       THEN load_area_with(current_area_id, area_relations, area_components, relation_tags,
                           component_tags, widget.checked, widget.match_all, widget)
       ELSE /\ tag_filter_widget' = widget
            /\ UNCHANGED <<current_area_id, canvas, checked_widget, tags_cache, areas_cache>>
    /\ log("tag_filter", NoPosition, <<>>, {})
    /\ UNCHANGED <<store_vars, tag_vars, project_vars, manager_vars, selected_insert_position>>

\* the user ticks or unticks the checkbox of a tag (stateChanged)
tag_checkbox_changed(tag_id) ==
    /\ tag_id \in tag_filter_widget.tag_checkboxes
    /\ widget_filter_changed(
          [tag_filter_widget EXCEPT !.checked = IF tag_id \in @ THEN @ \ {tag_id}
                                                ELSE @ \cup {tag_id}])

\* AreaTagFilterWidget._select_all
select_all ==
    widget_filter_changed([tag_filter_widget EXCEPT !.checked = tag_filter_widget.tag_checkboxes])

\* AreaTagFilterWidget._select_none
select_none ==
    widget_filter_changed([tag_filter_widget EXCEPT !.checked = {}])

\* AreaTagFilterWidget._on_match_all_changed (stateChanged of the AND checkbox)
on_match_all_changed(state) ==
    /\ state # tag_filter_widget.match_all
    /\ widget_filter_changed([tag_filter_widget EXCEPT !.match_all = state])

\* AreaElementTagManager.invalidate_cache of the window's tag manager and the
\* slot AreaTagFilterWidget._on_cache_invalidated connected to its signal:
\* the checkboxes are loaded again, from get_tags_for_area for a widget that
\* shows an area, from get_all_tags(refresh=True) otherwise
on_cache_invalidated ==
    LET tag_ids == area_tag_ids(tag_filter_widget.area_id, area_relations, area_components,
                                relation_tags, component_tags)
    IN  /\ IF tag_filter_widget.area_id # None
           THEN /\ tags_cache' = cache_after_get_tags(NoCache, element_tags, tag_ids)
                /\ tag_filter_widget' =
                      load_tags(tag_filter_widget,
                                get_tags_for_area(NoCache, element_tags, tag_ids))
           ELSE /\ tags_cache' = loaded_cache(element_tags)
                /\ tag_filter_widget' =
                      load_tags(tag_filter_widget, {t.id : t \in element_tags})
        /\ ret(Call("invalidate_cache", NoArgs, "None", {}, <<>>, 0, FALSE, {"cache_invalidated"}))
        /\ UNCHANGED <<store_vars, tag_vars, filter_vars, project_vars, manager_kind,
                       element_tags, next_tag_id, areas, next_area_id, filter_engine,
                       current_area_id, selected_insert_position, canvas, checked_widget,
                       last_op, areas_cache>>

\* a window just constructed over a store with two tags and an area whose
\* relation carries tag 1 and whose component carries both tags: the filter
\* widget has loaded every tag
WidgetRelations == {RelationRow(1, 1, "item", 1, "", 0)}

WidgetComponents == {ComponentRow(1, 1, "note", "x", 1)}

InitWidget ==
    /\ area_relations = WidgetRelations
    /\ area_components = WidgetComponents
    /\ next_relation_id = 2
    /\ next_component_id = 2
    /\ relation_tags = [r \in 1..MaxRelationId |-> IF r = 1 THEN {1} ELSE {}]
    /\ component_tags = [c \in 1..MaxComponentId |-> TagIds]
    /\ current_area_id = None
    /\ selected_insert_position = NoPosition
    /\ active_tag_filters = {}
    /\ tag_filter_match_all = FALSE
    /\ canvas = <<>>
    /\ checked_widget = NoPosition
    /\ project_content = <<>>
    /\ project_relation_tags = <<>>
    /\ project_active_tag_filters = {}
    /\ project_tag_filter_match_all = FALSE
    /\ project_canvas = <<>>
    /\ failures = 0
    /\ last_op = Op("init", NoPosition, <<>>, {})
    /\ manager_kind = "area"
    /\ element_tags = {TagRow(t, Repeat("a", t), Fff) : t \in TagIds}
    /\ next_tag_id = NumTags + 1
    /\ tags_cache = loaded_cache(element_tags)
    /\ last_call = NoCall
    /\ areas = InitAreas
    /\ next_area_id = NumAreas + 1
    /\ areas_cache = {}
    /\ tag_filter_widget = TagFilterWidget(None, TagIds, {}, FALSE)
    /\ filter_engine = NoEngine

\* the user's actions on the filter panel and on the canvas
NextWidget ==
    \/ \E a \in AreaIds : on_area_selected(a)
    \/ on_refresh_area
    \/ \E t \in TagIds : tag_checkbox_changed(t)
    \/ select_all
    \/ select_none
    \/ \E state \in BOOLEAN : on_match_all_changed(state)
    \/ on_cache_invalidated
    \/ \E w \in Range(canvas) : on_relation_delete(w, NoFail)
    \/ \E w \in Range(canvas) : on_component_delete(w, NoFail)

SpecWidget == InitWidget /\ [][NextWidget]_vars

\* ---------------------------------------------------------------- area editor runs
\* the record of a get_area call: the row comes from the cache when the area
\* is cached, from the store otherwise
get_area_call(cache, rows, area_id) ==
    LET hit == \E a \in cache : a.id = area_id
        area == get_area_rows(cache, rows, area_id)
    IN  Call("get_area", Args(area_id, <<>>, <<>>, FALSE, {}),
             IF area # {} THEN "area" ELSE "None", area,
             IF hit THEN <<>> ELSE <<TRUE>>, IF hit THEN 0 ELSE 1, hit, {})

\* AreaManager.get_area(area_id)
get_area(area_id) ==
    /\ areas_cache' = areas_cache \cup get_area_rows(areas_cache, areas, area_id)
    /\ ret(get_area_call(areas_cache, areas, area_id))
    /\ UNCHANGED <<areas, next_area_id, store_vars, assoc_vars>>
    /\ area_manager_frame

\* AreasWindow.on_edit_area: the area is asked from the AreaManager; the
\* editor dialog, which works on the store through its own handle, is
\* rejected, or accepted after it has renamed the area (emitting area_updated
\* or not) or deleted it; after an accepted dialog the area is asked again and
\* the view is cleared when there is none
on_edit_area(outcome, name, emits) ==
    /\ current_area_id # None
    /\ LET id == current_area_id
           area == get_area_rows(areas_cache, areas, id)
           cache == areas_cache \cup area
           old == {a \in areas : a.id = id}
           gone_relations == {r.id : r \in get_area_relations(area_relations, id)}
           gone_components == {c.id : c \in get_area_components(area_components, id)}
       IN  IF area = {} \/ outcome = "rejected"
           THEN /\ areas_cache' = cache
                /\ ret(get_area_call(areas_cache, areas, id))
                /\ UNCHANGED <<areas, area_relations, area_components, tag_vars,
                               current_area_id, canvas, checked_widget, tags_cache,
                               tag_filter_widget>>
           ELSE IF outcome = "updated"
           THEN /\ old # {}
                /\ ~area_name_taken(areas, name, id)
                /\ areas' = (areas \ old)
                               \cup {AreaRow(id, name, (CHOOSE a \in old : TRUE).is_active)}
                /\ ret(get_area_call(cache, areas', id))
                /\ IF emits
                   THEN load_area(id, area_relations, area_components, relation_tags,
                                  component_tags)
                   ELSE /\ areas_cache' = cache
                        /\ UNCHANGED <<current_area_id, canvas, checked_widget, tags_cache,
                                       tag_filter_widget>>
                /\ UNCHANGED <<area_relations, area_components, tag_vars>>
           ELSE /\ areas' = areas \ old
                /\ area_relations' = {r \in area_relations : r.area_id # id}
                /\ area_components' = {c \in area_components : c.area_id # id}
                /\ relation_tags' = [r \in DOMAIN relation_tags |->
                                        IF r \in gone_relations THEN {} ELSE relation_tags[r]]
                /\ component_tags' = [c \in DOMAIN component_tags |->
                                         IF c \in gone_components THEN {} ELSE component_tags[c]]
                /\ areas_cache' = cache
                /\ ret(get_area_call(cache, areas', id))
                /\ IF get_area_rows(cache, areas', id) = {}
                   THEN /\ current_area_id' = None
                        /\ canvas' = <<>>
                        /\ checked_widget' = NoPosition
                        /\ tags_cache' = loaded_cache(element_tags)
                        /\ tag_filter_widget' = set_area(tag_filter_widget, None,
                                                         {t.id : t \in element_tags})
                   ELSE UNCHANGED <<current_area_id, canvas, checked_widget, tags_cache,
                                    tag_filter_widget>>
    /\ last_op' = Op("edit_area", NoPosition, <<>>, {})
    /\ UNCHANGED <<next_relation_id, next_component_id, next_area_id, filter_vars,
                   project_vars, manager_kind, element_tags, next_tag_id, filter_engine,
                   selected_insert_position>>

\* a window just constructed over a store with two areas; area 1 holds a
\* relation and a component
InitEdit ==
    /\ area_relations = WidgetRelations
    /\ area_components = WidgetComponents
    /\ next_relation_id = 2
    /\ next_component_id = 2
    /\ relation_tags = [r \in 1..MaxRelationId |-> IF r = 1 THEN {1} ELSE {}]
    /\ component_tags = [c \in 1..MaxComponentId |-> {}]
    /\ current_area_id = None
    /\ selected_insert_position = NoPosition
    /\ active_tag_filters = {}
    /\ tag_filter_match_all = FALSE
    /\ canvas = <<>>
    /\ checked_widget = NoPosition
    /\ project_content = <<>>
    /\ project_relation_tags = <<>>
    /\ project_active_tag_filters = {}
    /\ project_tag_filter_match_all = FALSE
    /\ project_canvas = <<>>
    /\ failures = 0
    /\ last_op = Op("init", NoPosition, <<>>, {})
    /\ manager_kind = "area"
    /\ element_tags = {TagRow(1, <<"b">>, Fff)}
    /\ next_tag_id = 2
    /\ tags_cache = loaded_cache(element_tags)
    /\ last_call = NoCall
    /\ areas = {AreaRow(1, <<"a">>, TRUE), AreaRow(2, <<"b">>, TRUE)}
    /\ next_area_id = 3
    /\ areas_cache = {}
    /\ tag_filter_widget = TagFilterWidget(None, {1}, {}, FALSE)
    /\ filter_engine = NoEngine

\* the user selects and refreshes the areas the store holds and edits the
\* current one; the manager is asked for any area
NextEdit ==
    \/ \E a \in areas : on_area_selected(a.id)
    \/ on_refresh_area
    \/ \E a \in 1..MaxAreaId : get_area(a)
    \/ \E outcome \in {"rejected", "updated", "deleted"}, name \in {<<"c">>, <<"d">>},
          emits \in BOOLEAN : on_edit_area(outcome, name, emits)

SpecEdit == InitEdit /\ [][NextEdit]_vars

\* ---------------------------------------------------------------- area filter engine runs
\* an entry of AreaFilterEngine._entity_cache, kept under the key
\* "<area id>_<entity type>"
CacheEntry(area_id, entity_type, entity_ids) ==
    [area_id |-> area_id, entity_type |-> entity_type, entity_ids |-> entity_ids]

\* AreaFilterEngine._get_cached_entities: the set holding the cached entry
get_cached_entities(engine, entity_type) ==
    IF engine.active_area_filter = None THEN {}
    ELSE {e \in engine.entity_cache : /\ e.area_id = engine.active_area_filter
                                       /\ e.entity_type = entity_type}

\* AreaFilterEngine._cache_entities
cache_entities(engine, entity_type, entity_ids) ==
    IF engine.active_area_filter = None THEN engine
    ELSE [engine EXCEPT !.entity_cache =
             {e \in @ : ~(/\ e.area_id = engine.active_area_filter
                          /\ e.entity_type = entity_type)}
                 \cup {CacheEntry(engine.active_area_filter, entity_type, entity_ids)}]

\* everything an engine call leaves alone
engine_frame ==
    /\ UNCHANGED <<store_vars, assoc_vars, areas, next_area_id, areas_cache>>
    /\ UNCHANGED <<tag_manager_vars, current_area_id, selected_insert_position, filter_vars,
                   canvas, checked_widget, project_content, project_active_tag_filters,
                   project_tag_filter_match_all, project_canvas, last_op, tag_filter_widget>>

\* AreaFilterEngine.set_active_area(area_id): the cache is cleared when the
\* active area changes
set_active_area(area_id) ==
    /\ filter_engine' = IF filter_engine.active_area_filter # area_id
                        THEN [active_area_filter |-> area_id, entity_cache |-> {}]
                        ELSE filter_engine
    /\ ret(Call("set_active_area", ContentArgs(area_id, "", 0, "", <<>>), "None", {}, <<>>, 0,
                FALSE, {}))
    /\ engine_frame

\* AreaFilterEngine.clear_filter
clear_filter ==
    /\ filter_engine' = IF filter_engine.active_area_filter # None
                        THEN NoEngine
                        ELSE filter_engine
    /\ ret(Call("clear_filter", ContentArgs(None, "", 0, "", <<>>), "None", {}, <<>>, 0,
                FALSE, {}))
    /\ engine_frame

\* AreaFilterEngine.get_entity_ids_in_area(entity_type): the empty set without
\* an active area, the cached set when there is one, else the entity ids of
\* the store's relations of that type, which are cached
get_entity_ids_in_area(entity_type) ==
    /\ LET area_id == filter_engine.active_area_filter
           args == ContentArgs(area_id, entity_type, 0, "", <<>>)
           cached == get_cached_entities(filter_engine, entity_type)
           entity_ids == {rel.entity_id : rel \in
                             {r \in get_area_relations(area_relations, area_id) :
                                  r.entity_type = entity_type}}
       IN  IF area_id = None
           THEN /\ ret(Call("get_entity_ids_in_area", args, "set", {}, <<>>, 0, FALSE, {}))
                /\ UNCHANGED filter_engine
           ELSE IF cached # {}
           THEN /\ ret(Call("get_entity_ids_in_area", args, "set",
                            (CHOOSE e \in cached : TRUE).entity_ids, <<>>, 0, TRUE, {}))
                /\ UNCHANGED filter_engine
           ELSE /\ filter_engine' = cache_entities(filter_engine, entity_type, entity_ids)
                /\ ret(Call("get_entity_ids_in_area", args, "set", entity_ids, <<TRUE>>, 1,
                            FALSE, {}))
    /\ engine_frame

\* an engine and an AreaManager over the same store: the active area is
\* chosen and cleared, memberships are asked, relations are added to the
\* areas and removed from them
NextEngine ==
    \/ \E a \in 1..2 : set_active_area(a)
    \/ clear_filter
    \/ \E entity_type \in {"item", "tag"} : get_entity_ids_in_area(entity_type)
    \/ \E a \in 1..2, entity_type \in {"item", "tag"} :
          add_entity_to_area(a, entity_type, 2, "", <<>>, NoFail)
    \/ \E entity_id \in 1..2 : remove_entity_from_area(1, "item", entity_id)

SpecEngine == InitAreaManager /\ [][NextEngine]_vars

\* ---------------------------------------------------------------- claims
\* the content of the current area, before and after a step
Cur == AreaContent(area_relations, area_components, current_area_id)

CurNext == AreaContent(area_relations', area_components', current_area_id')

Distinct(S) == \A x, y \in S : x # y => x.order_index # y.order_index

\* position (from 1) of entry e in the assembled list of S, S with distinct order_index
Position(S, e) == Cardinality({x \in S : x.order_index <= e.order_index})

\* S with the order_index of its entries a and b exchanged
Exchanged(S, a, b) ==
    {IF x = a THEN [x EXCEPT !.order_index = b.order_index]
     ELSE IF x = b THEN [x EXCEPT !.order_index = a.order_index]
     ELSE x : x \in S}

\* the entries of S the widget named by op belongs to
EntryOf(S, op) == {x \in S : x.type = op.type /\ x.id = op.id}

\* C1: after any sequence of move / insert / append / delete operations whose
\* store writes all succeed, the order_index values of the relations and
\* components of a container are pairwise distinct.
C1_OrderIndexDistinct ==
    \A a \in AreaIds : Distinct(AreaContent(area_relations, area_components, a))

\* C2: Insert Below an anchor whose order_index is k increases by one the
\* order_index of every entry with order_index >= k+1, leaves the entries with
\* order_index <= k alone and stores the new entry at k+1, immediately after
\* the anchor.
C2_Shifted(x, k) == IF x.order_index >= k + 1 THEN [x EXCEPT !.order_index = @ + 1] ELSE x

C2_InsertBelowAnchor ==
    [][(/\ last_op'.name \in {"add_relation", "add_component"}
        /\ last_op'.writes[Len(last_op'.writes)]
        /\ selected_insert_position # NoPosition)
       => \A anchor \in EntryOf(Cur, selected_insert_position) :
            LET k == anchor.order_index
                old == {C2_Shifted(x, k) : x \in Cur}
            IN  /\ old \subseteq CurNext
                /\ \E new \in CurNext \ old :
                      /\ CurNext = old \cup {new}
                      /\ new.order_index = k + 1
                      /\ new.type = IF last_op'.name = "add_relation"
                                    THEN "relation" ELSE "component"]_vars

\* C3: with no insert anchor selected, a new relation or component is appended
\* at max(order_index of the container) + 1, or 0 in an empty container.
C3_AppendIndex(S) == IF S = {} THEN 0 ELSE SetMax({x.order_index : x \in S}) + 1

C3_AppendAtMaxPlusOne ==
    [][(/\ last_op'.name \in {"add_relation", "add_component"}
        /\ last_op'.writes = <<TRUE>>
        /\ selected_insert_position = NoPosition)
       => \A new \in CurNext \ Cur : new.order_index = C3_AppendIndex(Cur)]_vars

\* C4: Move Up of the entry E at position i > 1 of the assembled list (distinct
\* order_index values) exchanges the order_index of E and of its predecessor
\* with two store writes and changes no other entry; Move Down is symmetric
\* with the successor.
C4_MoveSwapsNeighbour ==
    [][\A e \in EntryOf(Cur, last_op') :
          LET i == Position(Cur, e)
              j == IF last_op'.name = "move_up" THEN i - 1 ELSE i + 1
          IN  (/\ last_op'.name \in {"move_up", "move_down"}
               /\ Distinct(Cur)
               /\ j >= 1 /\ j <= Cardinality(Cur))
              => \E n \in Cur :
                     /\ Position(Cur, n) = j
                     /\ CurNext = Exchanged(Cur, e, n)
                     /\ last_op'.writes = <<TRUE, TRUE>>]_vars

\* C5: Move Up of the first entry and Move Down of the last entry of the
\* assembled list make no store write and leave the content as it is.
C5_MoveAtBoundaryIsNoOp ==
    [][\A e \in EntryOf(Cur, last_op') :
          (\/ /\ last_op'.name = "move_up"
              /\ \A x \in Cur \ {e} : e.order_index < x.order_index
           \/ /\ last_op'.name = "move_down"
              /\ \A x \in Cur \ {e} : x.order_index < e.order_index)
          => /\ last_op'.writes = <<>>
             /\ CurNext = Cur]_vars

\* C6: for an entry E neither first nor last (distinct order_index values),
\* Move Up(E) followed by Move Down(E) restores the order_index of every entry.
C6_MoveUpThenDownRestores ==
    [][(/\ last_op.name = "move_up"
        /\ last_op'.name = "move_down"
        /\ last_op'.type = last_op.type
        /\ last_op'.id = last_op.id
        /\ Distinct(last_op.pre)
        /\ \E e \in EntryOf(last_op.pre, last_op) :
              /\ Position(last_op.pre, e) > 1
              /\ Position(last_op.pre, e) < Cardinality(last_op.pre))
       => CurNext = last_op.pre]_vars

\* C7: when a store write of Move Up, Move Down or Insert Below raises, the
\* operation makes no later store write (a failed shift is not followed by the
\* insertion).
C7_NoWriteAfterFailure ==
    last_op.name \in {"move_up", "move_down", "add_relation", "add_component"}
        => \A i \in 1..(Len(last_op.writes) - 1) : last_op.writes[i]

\* C8: deleting a relation or a component removes that entry only; the
\* order_index of every remaining entry is unchanged (gaps stay).
C8_DeleteKeepsOthers ==
    [][(/\ last_op'.name \in {"delete_relation", "delete_component"}
        /\ last_op'.writes = <<TRUE>>)
       => /\ EntryOf(Cur, last_op') # {}
          /\ \A e \in EntryOf(Cur, last_op') : CurNext = Cur \ {e}
          /\ Cardinality(area_relations') + Cardinality(area_components')
                = Cardinality(area_relations) + Cardinality(area_components) - 1]_vars

\* a relation was deleted from the head of an area that still holds a relation
\* and a component: the gap at order_index 0 is still there
C8_Witness ==
    /\ last_op.name = "delete_relation"
    /\ last_op.writes = <<TRUE>>
    /\ \E x \in Cur : x.type = "relation"
    /\ \E x \in Cur : x.type = "component"
    /\ \A x \in Cur : x.order_index > 0

\* C9: with a non-empty selection S the Area filter shows, in their order, the
\* relations and components whose own tag set T meets S (match_all false) or
\* contains S (match_all true), and nothing else.
C9_Tags(item) ==
    IF item.type = "relation" THEN relation_tags[item.id] ELSE component_tags[item.id]

C9_Matches(item) ==
    IF tag_filter_match_all THEN active_tag_filters \subseteq C9_Tags(item)
    ELSE C9_Tags(item) \cap active_tag_filters # {}

C9_AreaFilterKeepsMatching ==
    active_tag_filters # {}
        => /\ Range(canvas) = {item \in Cur : C9_Matches(item)}
           /\ \A i, j \in 1..Len(canvas) :
                 i < j => canvas[i].order_index < canvas[j].order_index

\* an AND filter over two tags that keeps a relation and hides a component
C9_Witness ==
    /\ last_op.name = "tag_filter"
    /\ Cardinality(active_tag_filters) = 2
    /\ tag_filter_match_all
    /\ \E item \in Range(canvas) : item.type = "relation"
    /\ \E item \in Cur \ Range(canvas) : item.type = "component" /\ C9_Tags(item) # {}

\* C10: with an empty selection the Area filter and the Project filter return
\* their input, whatever match_all is, and the windows show the whole content.
C10_EmptySelectionIsIdentity ==
    /\ \A match_all \in BOOLEAN :
          /\ \A content \in get_area_content_ordered(area_relations, area_components,
                                                     current_area_id) :
                filter_content_by_tags(content, {}, match_all, relation_tags, component_tags)
                    = content
          /\ project_filter_content_by_tags(project_content, {}, match_all,
                                            project_relation_tags) = project_content
    /\ active_tag_filters = {}
          => canvas \in get_area_content_ordered(area_relations, area_components,
                                                 current_area_id)
    /\ project_active_tag_filters = {} => project_canvas = project_content

\* the selection was emptied with match_all set, in both windows, over content
\* that carries tags
C10_Witness ==
    /\ active_tag_filters = {}
    /\ tag_filter_match_all
    /\ project_active_tag_filters = {}
    /\ project_tag_filter_match_all
    /\ last_op.name \in {"tag_filter", "project_tag_filter"}
    /\ Len(canvas) = Cardinality(Cur)
    /\ Len(project_canvas) = Len(project_content)
    /\ \E item \in Cur : C9_Tags(item) # {}

\* C11: for every content list and every selected tag-id set, every entry the
\* filter keeps with match_all = TRUE is also kept with match_all = FALSE, in
\* the Area filter and in the Project filter.
C11_OrSupersetOfAnd ==
    \A selected \in SUBSET TagIds :
        /\ \A content \in get_area_content_ordered(area_relations, area_components,
                                                   current_area_id) :
              Range(filter_content_by_tags(content, selected, TRUE,
                                           relation_tags, component_tags))
                 \subseteq Range(filter_content_by_tags(content, selected, FALSE,
                                                        relation_tags, component_tags))
        /\ Range(project_filter_content_by_tags(project_content, selected, TRUE,
                                                project_relation_tags))
              \subseteq Range(project_filter_content_by_tags(project_content, selected, FALSE,
                                                             project_relation_tags))

\* both windows show an AND filter that keeps an entry and hides an entry the
\* OR filter over the same tags would keep
C11_Witness ==
    /\ active_tag_filters # {}
    /\ tag_filter_match_all
    /\ canvas # <<>>
    /\ \E item \in Cur \ Range(canvas) : C9_Tags(item) \cap active_tag_filters # {}
    /\ project_active_tag_filters # {}
    /\ project_tag_filter_match_all
    /\ \E item \in Range(project_canvas) : item.type = "relation"
    /\ \E item \in Range(project_content) \ Range(project_canvas) :
          project_relation_tags[item.id] \cap project_active_tag_filters # {}

\* C12: update_tag(id, fields) with valid fields on an existing tag whose
\* store update succeeds returns True and leaves the cache holding the store's
\* updated row of that id, in every cache state (never loaded and just
\* invalidated included).
C12_UpdateRefreshesCache ==
    [][(/\ last_call'.name = "update_tag"
        /\ get_element_tag_by_id(element_tags, last_call'.args.id) # {}
        /\ last_call'.args.name # <<>> =>
              /\ validate_tag_name(last_call'.args.name[1])
              /\ ~tag_name_taken(element_tags, last_call'.args.name[1], last_call'.args.id)
        /\ last_call'.args.color # <<>> => validate_color(last_call'.args.color[1])
        /\ \A i \in DOMAIN last_call'.calls : last_call'.calls[i])
       => /\ last_call'.result = "True"
          /\ get_from_cache(tags_cache', last_call'.args.id)
                = get_element_tag_by_id(element_tags', last_call'.args.id)
          /\ get_from_cache(tags_cache', last_call'.args.id) # {}]_vars

\* C13: delete_tag(id) on an existing tag, in use or not, removes the tag from
\* the store, returns True, leaves the id out of the cache and leaves no
\* relation or component association with the tag; for the Area and the
\* Project manager, in every cache state.
C13_DeleteInUseTag ==
    [][(/\ last_call'.name = "delete_tag"
        /\ get_element_tag_by_id(element_tags, last_call'.args.id) # {}
        /\ \A i \in DOMAIN last_call'.calls : last_call'.calls[i])
       => /\ last_call'.result = "True"
          /\ get_element_tag_by_id(element_tags', last_call'.args.id) = {}
          /\ get_from_cache(tags_cache', last_call'.args.id) = {}
          /\ get_tag_usage_count(manager_relation_tags', last_call'.args.id) = 0
          /\ manager_kind = "area" =>
                get_tag_usage_count(component_tags', last_call'.args.id) = 0]_vars

\* C14: after any sequence of manager calls, get_all_tags() with refresh=False
\* returns exactly the tags the store holds, also when single tags were cached
\* before get_all_tags was first called.
C14_GetAllIsTheStore ==
    (/\ last_call.name = "get_all_tags"
     /\ ~last_call.args.refresh
     /\ \A i \in DOMAIN last_call.calls : last_call.calls[i])
        => last_call.value = element_tags

\* C15: a failure of the store during a public manager method is returned as a
\* failure value (False, None, an empty list); no store exception leaves the
\* method.
C15_NoExceptionLeavesManager == last_call.result # "raise"

\* the name and color rules as the claim words them
C16_NameOk(name) ==
    /\ name # <<>>
    /\ ~is_blank(name)
    /\ Len(name) <= 50
    /\ \A i \in 1..Len(name) :
          IsLetter(name[i]) \/ IsDigit(name[i]) \/ name[i] \in {" ", "_", "-"}

C16_ColorOk(color) ==
    /\ Len(color) \in {4, 7}
    /\ color[1] = "#"
    /\ \A i \in 2..Len(color) : IsHexDigit(color[i])

\* C16: create_tag returns None, writes nothing to the store, caches nothing
\* and emits no tag_created when the name is empty or blank, longer than 50
\* characters or holds a character that is not a letter, digit, space,
\* underscore or hyphen, or when the color is not '#' and 3 or 6 hex digits;
\* with a valid new name and a valid color it returns the created tag.
C16_CreateValidates ==
    [][last_call'.name = "create_tag"
       => IF C16_NameOk(last_call'.args.name) /\ C16_ColorOk(last_call'.args.color)
          THEN get_element_tag_by_name(element_tags, last_call'.args.name) = {}
                  => /\ last_call'.result = "tag"
                     /\ last_call'.value = get_element_tag_by_name(element_tags',
                                                                    last_call'.args.name)
                     /\ last_call'.value # {}
          ELSE /\ last_call'.result = "None"
               /\ element_tags' = element_tags
               /\ tags_cache' = tags_cache
               /\ "tag_created" \notin last_call'.signals]_vars

\* C17: assign_tags_to_relation(r, S) and assign_tags_to_component(c, S) leave
\* r (or c) with exactly S whatever it had; add_tag_to_relation(r, t) adds t
\* and keeps what r had; the associations of every other relation and
\* component are unchanged.
C17_AssignReplaces ==
    [][(last_call'.result = "True")
       => /\ last_call'.name = "assign_tags_to_relation"
             => /\ manager_relation_tags' =
                      [manager_relation_tags EXCEPT ![last_call'.args.id] =
                                                        last_call'.args.tag_ids]
                /\ component_tags' = component_tags
          /\ last_call'.name = "add_tag_to_relation"
             => /\ manager_relation_tags' =
                      [manager_relation_tags EXCEPT ![last_call'.args.id] =
                                                        @ \cup last_call'.args.tag_ids]
                /\ component_tags' = component_tags
          /\ last_call'.name = "assign_tags_to_component"
             => /\ component_tags' =
                      [component_tags EXCEPT ![last_call'.args.id] = last_call'.args.tag_ids]
                /\ manager_relation_tags' = manager_relation_tags]_vars

\* a relation was assigned one tag while the store holds two tags and another
\* relation carries both
C17_Witness ==
    /\ last_call.name = "assign_tags_to_relation"
    /\ last_call.result = "True"
    /\ Cardinality(last_call.args.tag_ids) = 1
    /\ manager_relation_tags[last_call.args.id] = last_call.args.tag_ids
    /\ \E r \in DOMAIN manager_relation_tags :
          r # last_call.args.id /\ Cardinality(manager_relation_tags[r]) = 2

\* C18: get_tag(id) returns a cached tag without a store read; on a miss it
\* makes exactly one store read and caches the tag if it exists, so that the
\* next get_tag(id) makes no store read.
C18_GetTagCacheFirst ==
    [][last_call'.name = "get_tag"
       => /\ IF get_from_cache(tags_cache, last_call'.args.id) # {}
             THEN /\ last_call'.reads = 0
                  /\ last_call'.value = get_from_cache(tags_cache, last_call'.args.id)
             ELSE /\ last_call'.reads = 1
                  /\ last_call'.value = get_element_tag_by_id(element_tags, last_call'.args.id)
                  /\ get_from_cache(tags_cache', last_call'.args.id) = last_call'.value
          /\ (/\ last_call.name = "get_tag"
              /\ last_call.args.id = last_call'.args.id
              /\ last_call.result = "tag")
             => last_call'.reads = 0]_vars

\* get_tag found the tag in a cache that an earlier call had filled
C18_Witness ==
    /\ last_call.name = "get_tag"
    /\ last_call.hit
    /\ last_call.reads = 0
    /\ last_call.value # {}
    /\ last_call.value \subseteq element_tags

\* C19: get_tag_by_name(name) returns a tag that is in the cache under that
\* name without a store read; only a miss makes a (single) store read.
C19_GetByNameCacheFirst ==
    (last_call.name = "get_tag_by_name" /\ last_call.hit) => last_call.reads = 0

\* C20: create_area returns None and writes nothing when the name is empty or
\* blank, longer than 100 characters or equal, ignoring case, to the name of
\* an existing area (active or not); after any create_area, update_area,
\* duplicate_area and delete_area no two areas of the store have the same name.
C20_AreaNamesUnique ==
    [][/\ (/\ last_call'.name = "create_area"
           /\ \/ last_call'.args.name = <<>>
              \/ is_blank(last_call'.args.name)
              \/ Len(last_call'.args.name) > 100
              \/ \E a \in areas : lower(a.name) = lower(last_call'.args.name))
          => /\ last_call'.result = "None"
             /\ areas' = areas
       /\ \A a, b \in areas' : a.id # b.id => a.name # b.name]_vars

\* create_area("A") was refused while an area "a" exists next to another area
C20_Witness ==
    /\ last_call.name = "create_area"
    /\ last_call.args.name = <<"A">>
    /\ last_call.result = "None"
    /\ \E a \in areas : a.name = <<"a">>
    /\ Cardinality(areas) >= 2

\* C21: add_component_to_area returns False and writes nothing to the store
\* when component_type is not one of divider, comment, alert, note, or when
\* content is empty for a type other than divider; add_entity_to_area returns
\* False and writes nothing when entity_type is not one of the six entity types.
C21_AddIsValidated ==
    /\ (/\ last_call.name = "add_component_to_area"
        /\ \/ last_call.args.type \notin VALID_COMPONENT_TYPES
           \/ last_call.args.content = "" /\ last_call.args.type # "divider")
       => (last_call.result = "False" /\ last_call.value = {})
    /\ (/\ last_call.name = "add_entity_to_area"
        /\ last_call.args.type \notin VALID_ENTITY_TYPES)
       => (last_call.result = "False" /\ last_call.value = {})

\* what duplicate_area copies of a relation and of a component
C22_Relations(rels, area_id) ==
    {[entity_type |-> r.entity_type, entity_id |-> r.entity_id, description |-> r.description,
      order_index |-> r.order_index] : r \in get_area_relations(rels, area_id)}

C22_Components(comps, area_id) ==
    {[component_type |-> c.component_type, content |-> c.content,
      order_index |-> c.order_index] : c \in get_area_components(comps, area_id)}

\* C22: a successful duplicate_area(a) creates one new area whose relations and
\* components are copies of all those of a (same entity_type, entity_id,
\* description / component_type, content, same order_index); the rows and tag
\* associations that existed are unchanged and the copies carry no tags.
C22_DuplicateCopiesContent ==
    [][(/\ last_call'.name = "duplicate_area"
        /\ last_call'.result = "area"
        /\ next_area_id' = next_area_id + 1)
       => LET a == last_call'.args.id
              n == next_area_id
          IN  /\ areas' = areas \cup last_call'.value
              /\ Cardinality(areas') = Cardinality(areas) + 1
              /\ \A new \in last_call'.value : new.id = n
              /\ C22_Relations(area_relations', n) = C22_Relations(area_relations, a)
              /\ C22_Components(area_components', n) = C22_Components(area_components, a)
              /\ Cardinality(get_area_relations(area_relations', n))
                    = Cardinality(get_area_relations(area_relations, a))
              /\ Cardinality(get_area_components(area_components', n))
                    = Cardinality(get_area_components(area_components, a))
              /\ {r \in area_relations' : r.area_id # n} = area_relations
              /\ {c \in area_components' : c.area_id # n} = area_components
              /\ \A r \in area_relations : relation_tags'[r.id] = relation_tags[r.id]
              /\ \A c \in area_components : component_tags'[c.id] = component_tags[c.id]
              /\ \A r \in get_area_relations(area_relations', n) : relation_tags'[r.id] = {}
              /\ \A c \in get_area_components(area_components', n) : component_tags'[c.id] = {}]_vars

\* an area with a tagged relation and a tagged component has been duplicated
C22_Witness ==
    /\ last_call.name = "duplicate_area"
    /\ last_call.result = "area"
    /\ \E new \in last_call.value :
          /\ get_area_relations(area_relations, new.id) # {}
          /\ get_area_components(area_components, new.id) # {}
    /\ \E r \in get_area_relations(area_relations, last_call.args.id) : relation_tags[r.id] # {}
    /\ \E c \in get_area_components(area_components, last_call.args.id) :
          component_tags[c.id] # {}

\* the OR / AND predicate over the selection
C23_Satisfies(tag_ids, selected, match_all) ==
    IF match_all THEN selected \subseteq tag_ids ELSE selected \cap tag_ids # {}

C23_Only(content, type) == SelectSeq(content, LAMBDA item : item.type = type)

\* C23: with the same non-empty tag selection over the same content and tag
\* associations, the Area filter and the Project filter keep the same relation
\* entries; the Area filter keeps a component only when its own tags satisfy
\* the predicate, the Project filter keeps every component.
C23_FiltersDifferOnComponentsOnly ==
    (/\ active_tag_filters # {}
     /\ project_active_tag_filters = active_tag_filters
     /\ project_tag_filter_match_all = tag_filter_match_all)
    => /\ C23_Only(canvas, "relation") = C23_Only(project_canvas, "relation")
       /\ C23_Only(project_canvas, "component") = C23_Only(project_content, "component")
       /\ \A c \in Range(C23_Only(project_content, "component")) :
             c \in Range(canvas)
                <=> C23_Satisfies(component_tags[c.id], active_tag_filters,
                                  tag_filter_match_all)

\* both windows filter by the same selection; the Project window shows a
\* component that the Area window has filtered out, and a relation is shown
C23_Witness ==
    /\ active_tag_filters # {}
    /\ project_active_tag_filters = active_tag_filters
    /\ project_tag_filter_match_all = tag_filter_match_all
    /\ \E c \in Range(project_canvas) : c.type = "component" /\ c \notin Range(canvas)
    /\ \E r \in Range(canvas) : r.type = "relation"
    /\ \E r \in Range(project_content) : r.type = "relation" /\ r \notin Range(project_canvas)

C25_MoveReordersItsOwnEntry ==
    [][(/\ last_op'.name \in {"move_up", "move_down"}
        /\ CurNext # Cur)
       => \E e \in EntryOf(Cur, last_op') : e \notin CurNext]_vars

\* C26: the anchor an insertion uses designates an entry of the loaded
\* container with its current order_index, the one whose checkbox is ticked;
\* when no entry is ticked any more no anchor is left and the insertion appends.
C26_AnchorIsCurrent ==
    [][(/\ last_op'.name \in {"add_relation", "add_component"}
        /\ selected_insert_position # NoPosition)
       => /\ checked_widget = selected_insert_position
          /\ selected_insert_position \in Cur]_vars

\* C27: the window's active_tag_filters is always the set of the tag ids whose
\* checkbox is present and checked in the filter widget.
C27_FiltersAreTheCheckedBoxes ==
    active_tag_filters = tag_filter_widget.checked \cap tag_filter_widget.tag_checkboxes

\* C28: tag cache coherence of one manager instance: every tag held in the
\* cache is the store's row with that id (same name and color), so no id of a
\* deleted tag remains in the cache, whatever calls succeeded or failed.
C28_CacheIsCoherent ==
    \A t \in tags_cache.tags : t \in element_tags

\* an update_tag has succeeded on a cached tag and the cache holds the new row
C28_Witness ==
    /\ last_call.name = "update_tag"
    /\ last_call.result = "True"
    /\ last_call.args.name # <<>>
    /\ \E t \in tags_cache.tags : t.id = last_call.args.id /\ t.name = last_call.args.name[1]

\* C29: what AreaManager.get_area(id) returns is the store's current row of
\* the area, and nothing once the area has been deleted, also when the editor
\* dialog changed the store through its own handle.
C29_GetAreaReflectsStore ==
    last_call.name = "get_area"
        => last_call.value = {a \in areas : a.id = last_call.args.id}

\* C30: what AreaFilterEngine.get_entity_ids_in_area(t) returns is the set of
\* the entity ids of the store's current relations of type t in the active
\* area, and the empty set when no area is active.
C30_MembershipIsCurrent ==
    last_call.name = "get_entity_ids_in_area"
        => last_call.value =
              IF filter_engine.active_area_filter = None THEN {}
              ELSE {r.entity_id : r \in
                       {x \in get_area_relations(area_relations,
                                                 filter_engine.active_area_filter) :
                            x.entity_type = last_call.args.type}}

====
